---- MODULE Spec2Model ----
(***************************************************************************)
(* Gallery agent: the in-memory image store, the paginated search tool,    *)
(* the agent's search-result cache and the single-pass LangGraph turn.     *)
(*                                                                         *)
(* Python values are modelled as follows.                                  *)
(*   str            a sequence of one-character strings                    *)
(*   list           a sequence                                             *)
(*   Optional[X]    <<>> for None, <<x>> for a value x                     *)
(*   dict           a record; tool arguments, whose insertion order        *)
(*                  matters, are a sequence of <<name, value>> pairs       *)
(*   datetime.now() the variable clock, in minutes                         *)
(***************************************************************************)
EXTENDS Integers, Sequences, FiniteSets, TLC

VARIABLES
    SAMPLE_IMAGES,   \* tools.py: the module-level record store
    search_cache,    \* GalleryAgent.search_cache, entries in insertion order
    clock,           \* wall clock read by datetime.now(), minutes
    pc,              \* next graph node of the running invoke, or "idle"
    state,           \* the AgentState of the running (or last) invoke
    llm_messages,    \* message list handed to the latest model call
    llm_with_tools,  \* GalleryAgent.llm_with_tools: the names of the bound tools
    llm_response,    \* response.tool_calls of process_input's model call in the running invoke
    last_call,       \* latest direct call of a tool or cache method, with result
    tag_calls        \* tag_images invocations that run concurrently: position of each

vars ==
    <<SAMPLE_IMAGES, search_cache, clock, pc, state, llm_messages, llm_with_tools,
      llm_response, last_call, tag_calls>>

----------------------------------------------------------------------------
(* String values used as tool arguments. *)
img_001 == <<"i", "m", "g", "_", "0", "0", "1">>
img_002 == <<"i", "m", "g", "_", "0", "0", "2">>
img_003 == <<"i", "m", "g", "_", "0", "0", "3">>
img_004 == <<"i", "m", "g", "_", "0", "0", "4">>
img_999 == <<"i", "m", "g", "_", "9", "9", "9">>
s_beach == <<"b", "e", "a", "c", "h">>
s_BEACH == <<"B", "E", "A", "C", "H">>
s_mountain == <<"m", "o", "u", "n", "t", "a", "i", "n">>
s_zzz == <<"z", "z", "z">>
s_people == <<"p", "e", "o", "p", "l", "e">>
s_empty == <<>>
s_good == <<"g", "o", "o", "d">>
s_hiking == <<"h", "i", "k", "i", "n", "g">>
s_excellent == <<"e", "x", "c", "e", "l", "l", "e", "n", "t">>
s_poor == <<"p", "o", "o", "r">>
s_blurry == <<"b", "l", "u", "r", "r", "y">>

(* tools.py SAMPLE_IMAGES as first loaded.  The fields path, uploaded_at,  *)
(* captured_at, width, height, size and metadata are never read by the     *)
(* operations modelled here and are left out of the record.                *)
SeedImages ==
    <<[id |-> <<"i", "m", "g", "_", "0", "0", "1">>,
       filename |-> <<"b", "e", "a", "c", "h", "_", "s", "u", "n", "s", "e", "t", ".", "j", "p", "g">>,
       location |-> <<<<"M", "a", "l", "i", "b", "u", " ", "B", "e", "a", "c", "h", ",", " ", "C", "a", "l", "i", "f", "o", "r", "n", "i", "a">>>>,
       tags |-> <<<<"b", "e", "a", "c", "h">>, <<"s", "u", "n", "s", "e", "t">>, <<"l", "a", "n", "d", "s", "c", "a", "p", "e">>, <<"n", "a", "t", "u", "r", "e">>>>,
       relations |-> <<<<"i", "m", "g", "_", "0", "0", "2">>, <<"i", "m", "g", "_", "0", "0", "3">>>>,
       quality |-> <<<<"e", "x", "c", "e", "l", "l", "e", "n", "t">>>>],
      [id |-> <<"i", "m", "g", "_", "0", "0", "2">>,
       filename |-> <<"b", "e", "a", "c", "h", "_", "p", "e", "o", "p", "l", "e", ".", "j", "p", "g">>,
       location |-> <<<<"M", "a", "l", "i", "b", "u", " ", "B", "e", "a", "c", "h", ",", " ", "C", "a", "l", "i", "f", "o", "r", "n", "i", "a">>>>,
       tags |-> <<<<"b", "e", "a", "c", "h">>, <<"p", "e", "o", "p", "l", "e">>, <<"g", "r", "o", "u", "p", " ", "p", "h", "o", "t", "o">>>>,
       relations |-> <<<<"i", "m", "g", "_", "0", "0", "1">>, <<"i", "m", "g", "_", "0", "0", "3">>>>,
       quality |-> <<<<"g", "o", "o", "d">>>>],
      [id |-> <<"i", "m", "g", "_", "0", "0", "3">>,
       filename |-> <<"b", "e", "a", "c", "h", "_", "b", "l", "u", "r", "r", "y", ".", "j", "p", "g">>,
       location |-> <<<<"M", "a", "l", "i", "b", "u", " ", "B", "e", "a", "c", "h", ",", " ", "C", "a", "l", "i", "f", "o", "r", "n", "i", "a">>>>,
       tags |-> <<<<"b", "e", "a", "c", "h">>, <<"b", "l", "u", "r", "r", "y">>>>,
       relations |-> <<<<"i", "m", "g", "_", "0", "0", "1">>, <<"i", "m", "g", "_", "0", "0", "2">>>>,
       quality |-> <<<<"b", "l", "u", "r", "r", "y">>>>],
      [id |-> <<"i", "m", "g", "_", "0", "0", "4">>,
       filename |-> <<"m", "o", "u", "n", "t", "a", "i", "n", "_", "h", "i", "k", "e", ".", "j", "p", "g">>,
       location |-> <<<<"R", "o", "c", "k", "y", " ", "M", "o", "u", "n", "t", "a", "i", "n", "s", ",", " ", "C", "o", "l", "o", "r", "a", "d", "o">>>>,
       tags |-> <<<<"m", "o", "u", "n", "t", "a", "i", "n">>, <<"h", "i", "k", "i", "n", "g">>, <<"l", "a", "n", "d", "s", "c", "a", "p", "e">>>>,
       relations |-> <<<<"i", "m", "g", "_", "0", "0", "5">>>>,
       quality |-> <<<<"e", "x", "c", "e", "l", "l", "e", "n", "t">>>>],
      [id |-> <<"i", "m", "g", "_", "0", "0", "5">>,
       filename |-> <<"m", "o", "u", "n", "t", "a", "i", "n", "_", "s", "e", "l", "f", "i", "e", ".", "j", "p", "g">>,
       location |-> <<<<"R", "o", "c", "k", "y", " ", "M", "o", "u", "n", "t", "a", "i", "n", "s", ",", " ", "C", "o", "l", "o", "r", "a", "d", "o">>>>,
       tags |-> <<<<"m", "o", "u", "n", "t", "a", "i", "n">>, <<"s", "e", "l", "f", "i", "e">>, <<"p", "e", "o", "p", "l", "e">>>>,
       relations |-> <<<<"i", "m", "g", "_", "0", "0", "4">>>>,
       quality |-> <<<<"g", "o", "o", "d">>>>],
      [id |-> <<"i", "m", "g", "_", "0", "0", "6">>,
       filename |-> <<"c", "i", "t", "y", "_", "l", "i", "g", "h", "t", "s", ".", "j", "p", "g">>,
       location |-> <<<<"N", "e", "w", " ", "Y", "o", "r", "k", " ", "C", "i", "t", "y", ",", " ", "N", "e", "w", " ", "Y", "o", "r", "k">>>>,
       tags |-> <<<<"c", "i", "t", "y">>, <<"n", "i", "g", "h", "t">>, <<"l", "i", "g", "h", "t", "s">>, <<"s", "k", "y", "l", "i", "n", "e">>>>,
       relations |-> <<>>,
       quality |-> <<<<"e", "x", "c", "e", "l", "l", "e", "n", "t">>>>]>>

----------------------------------------------------------------------------
(* Python built-ins used by the source.                                    *)

None == <<>>

Some(x) == <<x>>

(* Truth value of an Optional[str] or Optional[list]: None, "" and [] are  *)
(* false.                                                                  *)
truthy(opt) == opt # None /\ opt[1] # <<>>

UpperChars ==
    <<"A", "B", "C", "D", "E", "F", "G", "H", "I", "J", "K", "L", "M",
      "N", "O", "P", "Q", "R", "S", "T", "U", "V", "W", "X", "Y", "Z">>

LowerChars ==
    <<"a", "b", "c", "d", "e", "f", "g", "h", "i", "j", "k", "l", "m",
      "n", "o", "p", "q", "r", "s", "t", "u", "v", "w", "x", "y", "z">>

(* str.lower(), character by character; other characters are unchanged *)
lower_char ==
    [c \in {UpperChars[k] : k \in 1..Len(UpperChars)} |->
        LowerChars[CHOOSE k \in 1..Len(UpperChars) : UpperChars[k] = c]]

lower(s) ==
    [i \in 1..Len(s) |-> IF s[i] \in DOMAIN lower_char THEN lower_char[s[i]] ELSE s[i]]

(* sub in s, for two str *)
str_in(sub, s) ==
    \E i \in 0..(Len(s) - Len(sub)) : SubSeq(s, i + 1, i + Len(sub)) = sub

(* x in l, for a list l *)
list_in(x, l) == \E i \in 1..Len(l) : l[i] = x

py_min(a, b) == IF a <= b THEN a ELSE b

(* a // b for b # 0: the quotient rounded toward minus infinity *)
floordiv(a, b) == IF b > 0 THEN a \div b ELSE (0 - a) \div (0 - b)

(* l[start:stop] with Python's treatment of negative and oversized indices *)
py_slice(l, start, stop) ==
    LET n == Len(l)
        norm(k) == IF k < 0 THEN (IF k + n < 0 THEN 0 ELSE k + n)
                   ELSE (IF k > n THEN n ELSE k)
        lo == norm(start)
        hi == norm(stop)
    IN  IF lo >= hi THEN <<>> ELSE SubSeq(l, lo + 1, hi)

(* d.get(k, default) on a dict modelled as a record *)
dict_get(d, k, default) == IF k \in DOMAIN d THEN d[k] ELSE default

(* Values of tool arguments, as they arrive from the model's tool call.    *)
VNone == [t |-> "none", i |-> 0, s |-> <<>>, l |-> <<>>]

VInt(n) == [t |-> "int", i |-> n, s |-> <<>>, l |-> <<>>]

VStr(str) == [t |-> "str", i |-> 0, s |-> str, l |-> <<>>]

VList(lst) == [t |-> "list", i |-> 0, s |-> <<>>, l |-> lst]

(* query_params.get(name): the value of the pair named name, else default  *)
arg_get(tool_input, name, default) ==
    IF \E i \in 1..Len(tool_input) : tool_input[i][1] = name
    THEN tool_input[CHOOSE i \in 1..Len(tool_input) : tool_input[i][1] = name][2]
    ELSE default

opt_str(v) == IF v.t = "none" THEN None ELSE Some(v.s)

opt_list(v) == IF v.t = "none" THEN None ELSE Some(v.l)

(* What a tool call produced: a returned value or a raised exception.      *)
Returned(value) == [raised |-> FALSE, value |-> value]

Raised(exc) == [raised |-> TRUE, exc |-> exc]

----------------------------------------------------------------------------
(* tools_optimized.py                                                      *)

SummaryTags == 5

(* A summary that carries the whole tag list. *)
_create_image_summary_all_tags(image) ==
    [id |-> image.id,
     filename |-> image.filename,
     location |-> image.location,
     tags |-> image.tags,
     quality |-> image.quality]

_create_image_summary(image) ==
    [id |-> image.id,
     filename |-> image.filename,
     location |-> image.location,
     tags |-> py_slice(image.tags, 0, SummaryTags),
     quality |-> image.quality]

(* The text-query test of one record. *)
text_match(image, query_lower) ==
    \/ str_in(query_lower, lower(image.filename))
    \/ \E i \in 1..Len(image.tags) : str_in(query_lower, lower(image.tags[i]))
    \/ (truthy(image.location) /\ str_in(query_lower, lower(image.location[1])))

(* A search whose tags filter asks for every requested tag. *)
search_match_all_tags(image, query, location, tags, quality) ==
    /\ text_match(image, lower(query))
    /\ ~(truthy(location)
         /\ (~truthy(image.location)
             \/ ~str_in(lower(location[1]), lower(image.location[1]))))
    /\ ~(truthy(tags)
         /\ ~(\A i \in 1..Len(tags[1]) : list_in(tags[1][i], image.tags)))
    /\ ~(truthy(quality) /\ image.quality # quality)

(* The loop body of the search: TRUE when the record is appended. *)
search_match(image, query, location, tags, quality) ==
    /\ text_match(image, lower(query))
    /\ ~(truthy(location)
         /\ (~truthy(image.location)
             \/ ~str_in(lower(location[1]), lower(image.location[1]))))
    /\ ~(truthy(tags)
         /\ ~(\E i \in 1..Len(tags[1]) : list_in(tags[1][i], image.tags)))
    /\ ~(truthy(quality) /\ image.quality # quality)

search_results(images, query, location, tags, quality) ==
    SelectSeq(images, LAMBDA image : search_match(image, query, location, tags, quality))

MaxPerPage == 10

DefaultPage == 1

DefaultPerPage == 5

(* A page size taken as requested, without the cap. *)
unclamped_per_page(per_page) == per_page

clamp_per_page(per_page) == py_min(per_page, MaxPerPage)

(* A page offset that counts pages from zero. *)
page_start_from_zero(page, per_page) == page * per_page

page_start(page, per_page) == (page - 1) * per_page

(* results[start_idx:end_idx] *)
paginated_results(results, page, per_page) ==
    LET start_idx == page_start(page, per_page)
        end_idx == start_idx + per_page
    IN  py_slice(results, start_idx, end_idx)

total_pages(total_count, per_page) == floordiv(total_count + per_page - 1, per_page)

(* The dict that search_images_paginated serialises and returns.  The      *)
(* local full_data (with has_next, has_prev and the full dicts of the page)*)
(* is built and dropped; the message carries the interpolated values.      *)
search_images_paginated(images, query, location, tags, quality, page, per_page0) ==
    LET per_page == clamp_per_page(per_page0)
        results == search_results(images, query, location, tags, quality)
        total_count == Len(results)
        page_items == paginated_results(results, page, per_page)
        summary_images == [i \in 1..Len(page_items) |-> _create_image_summary(page_items[i])]
    IN  IF per_page = 0
        THEN Raised("ZeroDivisionError")
        ELSE LET pages == total_pages(total_count, per_page)
                 has_next == page < pages
             IN  Returned(
                   [success |-> TRUE,
                    message |-> [found |-> total_count,
                                 showing |-> Len(page_items),
                                 page |-> page,
                                 of |-> pages,
                                 more |-> has_next],
                    summary |-> summary_images,
                    pagination |-> [page |-> page,
                                    per_page |-> per_page,
                                    total |-> total_count,
                                    pages |-> pages]])

(* A tagging that appends every requested tag, present or not. *)
tag_one_appending(image_tags, tags) == image_tags \o tags

(* tag_images: the store after the call and the returned dict. *)
tag_one(image_tags, tags) ==
    LET RECURSIVE add(_, _)
        add(cur, k) ==
            IF k > Len(tags) THEN cur
            ELSE add(IF list_in(tags[k], cur) THEN cur ELSE Append(cur, tags[k]), k + 1)
    IN  add(image_tags, 1)

(* A tagging that replaces a record's tag list by the requested tags. *)
tag_images_store_replacing(images, image_ids, tags) ==
    [i \in 1..Len(images) |->
        IF list_in(images[i].id, image_ids)
        THEN [images[i] EXCEPT !.tags = tags]
        ELSE images[i]]

tag_images_store(images, image_ids, tags) ==
    [i \in 1..Len(images) |->
        IF list_in(images[i].id, image_ids)
        THEN [images[i] EXCEPT !.tags = tag_one(images[i].tags, tags)]
        ELSE images[i]]

(* A result that counts the requested ids instead of the records touched. *)
tag_images_result_counting_ids(images, image_ids, tags) ==
    Returned([success |-> TRUE,
              message |-> [updated |-> Len(image_ids)],
              updated_count |-> Len(image_ids),
              tags_added |-> tags,
              image_count |-> Len(image_ids)])

tag_images_result(images, image_ids, tags) ==
    LET updated_count ==
            Cardinality({i \in 1..Len(images) : list_in(images[i].id, image_ids)})
    IN  Returned([success |-> TRUE,
                  message |-> [updated |-> updated_count],
                  updated_count |-> updated_count,
                  tags_added |-> tags,
                  image_count |-> Len(image_ids)])

(* types.py SearchQuery.quality: Literal['excellent', 'good', 'poor', 'blurry'] *)
quality_literal == {s_excellent, s_good, s_poor, s_blurry}

(* A limit that is never applied. *)
apply_limit_never(results, limit) == results

(* tools.py search_images: if limit: results = results[:limit] *)
apply_limit(results, limit) ==
    IF limit # None /\ limit[1] # 0
    THEN py_slice(results, 0, limit[1])
    ELSE results

(* tools.py search_images: the same matching loop, then the limit, then a  *)
(* SearchResult whose SearchQuery is validated by pydantic: a quality that  *)
(* is given and is not one of the four names is rejected by the model.     *)
legacy_search_images(images, query, location, tags, quality, limit) ==
    LET results == apply_limit(search_results(images, query, location, tags, quality), limit)
    IN  IF quality # None /\ quality[1] \notin quality_literal
        THEN Raised("ValidationError")
        ELSE Returned([success |-> TRUE,
                       data |-> [images |-> results, total_count |-> Len(results)],
                       message |-> [found |-> Len(results)]])

(* tools.py tag_images: the same loop over the store, the result under     *)
(* 'data'                                                                  *)
legacy_tag_images_store(images, image_ids, tags) ==
    [i \in 1..Len(images) |->
        IF list_in(images[i].id, image_ids)
        THEN [images[i] EXCEPT !.tags = tag_one(images[i].tags, tags)]
        ELSE images[i]]

legacy_tag_images_result(images, image_ids, tags) ==
    LET updated_count ==
            Cardinality({i \in 1..Len(images) : list_in(images[i].id, image_ids)})
    IN  Returned([success |-> TRUE,
                  data |-> [updated_count |-> updated_count,
                            tags_added |-> tags,
                            image_ids |-> image_ids],
                  message |-> [updated |-> updated_count]])

(* filter_low_quality_images *)
quality_levels ==
    (s_excellent :> 4) @@ (s_good :> 3) @@ (s_poor :> 2) @@ (s_blurry :> 1)

threshold_level(threshold) == dict_get(quality_levels, threshold, 2)

(* A test that removes only the records ranked below the threshold. *)
is_removed_strict(image, threshold) ==
    /\ truthy(image.quality)
    /\ dict_get(quality_levels, image.quality[1], 0) < threshold_level(threshold)

(* the condition of the loop's if *)
is_removed(image, threshold) ==
    /\ truthy(image.quality)
    /\ dict_get(quality_levels, image.quality[1], 0) <= threshold_level(threshold)

(* A split that keeps every record ranked at or above the threshold, so    *)
(* that a record ranked exactly at it lands on both sides.                 *)
quality_partition_overlapping(images, threshold) ==
    [removed |-> SelectSeq(images, LAMBDA image : is_removed(image, threshold)),
     kept |-> SelectSeq(images, LAMBDA image : ~is_removed_strict(image, threshold))]

(* the lists removed and kept after the loop over SAMPLE_IMAGES *)
quality_partition(images, threshold) ==
    [removed |-> SelectSeq(images, LAMBDA image : is_removed(image, threshold)),
     kept |-> SelectSeq(images, LAMBDA image : ~is_removed(image, threshold))]

RemovedSample == 5

filter_low_quality_images(images, threshold) ==
    LET part == quality_partition(images, threshold)
        shown == py_slice(part.removed, 0, RemovedSample)
        removed_summary == [i \in 1..Len(shown) |-> _create_image_summary(shown[i])]
    IN  Returned([success |-> TRUE,
                  message |-> [below |-> Len(part.removed),
                               threshold |-> threshold,
                               retained |-> Len(part.kept),
                               showing |-> Len(removed_summary)],
                  removed_count |-> Len(part.removed),
                  kept_count |-> Len(part.kept),
                  removed_sample |-> removed_summary,
                  criteria |-> threshold])

(* tools.py filter_low_quality_images: the FilterResult with both lists *)
legacy_filter_low_quality_images(images, threshold) ==
    LET part == quality_partition(images, threshold)
    IN  Returned([success |-> TRUE,
                  data |-> [removed |-> part.removed,
                            kept |-> part.kept,
                            total_processed |-> Len(images),
                            criteria |-> threshold],
                  message |-> [removed |-> Len(part.removed), kept |-> Len(part.kept)]])

(* The existing ids in the order of the store instead of the request. *)
valid_ids_store_order(images, image_ids) ==
    LET found == SelectSeq(images, LAMBDA img : list_in(img.id, image_ids))
    IN  [i \in 1..Len(found) |-> found[i].id]

(* delete_images: the requested ids that name a record of the store *)
valid_ids(images, image_ids) ==
    SelectSeq(image_ids,
              LAMBDA img_id : \E i \in 1..Len(images) : images[i].id = img_id)

(* A delete that takes the named records out of the store. *)
delete_images_store_removing(images, image_ids) ==
    SelectSeq(images, LAMBDA img : ~list_in(img.id, image_ids))

(* the store after delete_images: the function only builds its report     *)
(* ("In a real implementation, this would actually delete files")          *)
delete_images_store(images, image_ids) == images

delete_images(images, image_ids) ==
    LET ids == valid_ids(images, image_ids)
    IN  Returned([success |-> TRUE,
                  message |-> [deleted |-> Len(ids)],
                  deleted_count |-> Len(ids),
                  deleted_ids |-> ids])

(* tools.py delete_images: the DeleteResult under 'data' *)
legacy_delete_images(images, image_ids) ==
    LET ids == valid_ids(images, image_ids)
    IN  Returned([success |-> TRUE,
                  data |-> [deleted_ids |-> ids, count |-> Len(ids)],
                  message |-> [deleted |-> Len(ids)]])

SampleTags == 10

(* analyze_image_metadata: the statistics that depend on the fields kept   *)
(* in the records.  locations and the tags are sets in the source, so the  *)
(* order of the returned lists is not fixed: sample_tags is described by   *)
(* its length.  The two size totals read image.size, which the records     *)
(* here leave out.                                                         *)
analyze_image_metadata(images) ==
    LET quality_of(image) == IF truthy(image.quality) THEN image.quality[1] ELSE <<"unknown">>
        qualities == {quality_of(images[i]) : i \in 1..Len(images)}
        all_tags == UNION {{images[i].tags[k] : k \in 1..Len(images[i].tags)} :
                              i \in 1..Len(images)}
    IN  Returned(
          [success |-> TRUE,
           message |-> [analyzed |-> Len(images)],
           statistics |->
              [total_images |-> Len(images),
               quality_distribution |->
                  [q \in qualities |->
                      Cardinality({i \in 1..Len(images) : quality_of(images[i]) = q})],
               locations |-> {images[i].location[1] :
                                 i \in {j \in 1..Len(images) : truthy(images[j].location)}},
               total_unique_tags |-> Cardinality(all_tags),
               sample_tags_len |-> py_min(Cardinality(all_tags), SampleTags)]])

DefaultLimit == 5

(* the first record with this id, or None *)
target_image(images, image_id) ==
    IF \E i \in 1..Len(images) : images[i].id = image_id
    THEN Some(images[CHOOSE i \in 1..Len(images) :
                        /\ images[i].id = image_id
                        /\ \A j \in 1..(i - 1) : images[j].id # image_id])
    ELSE None

(* the records of the store named in the target's relations, store order *)
related_of(images, target) ==
    SelectSeq(images, LAMBDA image : list_in(image.id, target.relations))

get_related_images(images, image_id, limit) ==
    LET target == target_image(images, image_id)
    IN  IF target = None
        THEN Returned([success |-> FALSE, message |-> [not_found |-> image_id]])
        ELSE LET related_images == py_slice(related_of(images, target[1]), 0, limit)
                 related_summary ==
                     [i \in 1..Len(related_images) |->
                         _create_image_summary(related_images[i])]
             IN  Returned([success |-> TRUE,
                           message |-> [found |-> Len(related_images)],
                           source_image |-> _create_image_summary(target[1]),
                           related_count |-> Len(related_images),
                           related_images |-> related_summary])

(* tools.py get_related_images: no limit, full records under 'data' *)
legacy_get_related_images(images, image_id) ==
    LET target == target_image(images, image_id)
    IN  IF target = None
        THEN Returned([success |-> FALSE,
                       data |-> None,
                       message |-> [not_found |-> image_id]])
        ELSE LET related_images == related_of(images, target[1])
             IN  Returned([success |-> TRUE,
                           data |-> [source_image |-> target[1],
                                     related_images |-> related_images,
                                     relation_count |-> Len(related_images)],
                           message |-> [found |-> Len(related_images)]])

(* A search that reads the seed records instead of the store. *)
search_store_seed(images) == SeedImages

(* for image in SAMPLE_IMAGES: the search reads the module-level list as   *)
(* it is at the time of the call                                           *)
search_store(images) == images

(* tool.invoke(tool_input): bind the named arguments, defaults for the     *)
(* absent ones, and run the tool.  out is the outcome, images the store    *)
(* after the call.                                                         *)
tool_invoke(tool_name, tool_input, images) ==
    CASE tool_name = "search_images_paginated" ->
            [out |-> search_images_paginated(
                        search_store(images),
                        arg_get(tool_input, "query", VNone).s,
                        opt_str(arg_get(tool_input, "location", VNone)),
                        opt_list(arg_get(tool_input, "tags", VNone)),
                        opt_str(arg_get(tool_input, "quality", VNone)),
                        arg_get(tool_input, "page", VInt(DefaultPage)).i,
                        arg_get(tool_input, "per_page", VInt(DefaultPerPage)).i),
             images |-> images]
      [] tool_name = "filter_low_quality_images" ->
            [out |-> filter_low_quality_images(
                        images, arg_get(tool_input, "threshold", VStr(s_poor)).s),
             images |-> images]
      [] tool_name = "delete_images" ->
            [out |-> delete_images(images, arg_get(tool_input, "image_ids", VNone).l),
             images |-> delete_images_store(
                            images, arg_get(tool_input, "image_ids", VNone).l)]
      [] tool_name = "analyze_image_metadata" ->
            [out |-> analyze_image_metadata(images), images |-> images]
      [] tool_name = "get_related_images" ->
            [out |-> get_related_images(
                        images,
                        arg_get(tool_input, "image_id", VNone).s,
                        arg_get(tool_input, "limit", VInt(DefaultLimit)).i),
             images |-> images]
      [] tool_name = "tag_images" ->
            [out |-> tag_images_result(images,
                        arg_get(tool_input, "image_ids", VNone).l,
                        arg_get(tool_input, "tags", VNone).l),
             images |-> tag_images_store(images,
                        arg_get(tool_input, "image_ids", VNone).l,
                        arg_get(tool_input, "tags", VNone).l)]

----------------------------------------------------------------------------
(* agent.py: the search-result cache                                       *)

cache_ttl_minutes == 30

(* The argument names of the tools in the order in which sort_keys=True    *)
(* arranges them (code-point order of the strings).                        *)
SortedArgNames ==
    <<"image_ids", "location", "page", "per_page", "quality", "query", "tags">>

name_rank(name) == CHOOSE k \in 1..Len(SortedArgNames) : SortedArgNames[k] = name

RECURSIVE sort_keys(_)
sort_keys(pairs) ==
    IF pairs = <<>> THEN <<>>
    ELSE LET m == CHOOSE i \in 1..Len(pairs) :
                    \A j \in 1..Len(pairs) : name_rank(pairs[i][1]) <= name_rank(pairs[j][1])
         IN  <<pairs[m]>> \o sort_keys(SubSeq(pairs, 1, m - 1) \o SubSeq(pairs, m + 1, Len(pairs)))

(* A key that leaves the paging arguments out. *)
key_params_without_paging(query_params) ==
    SelectSeq(query_params, LAMBDA pair : pair[1] \notin {"page", "per_page"})

(* the whole query_params dict is serialised, every name and value of it *)
key_params(query_params) == query_params

(* A key that keeps the caller's argument order (sort_keys left out). *)
cache_key_unsorted(query_params) == query_params

(* json.dumps(query_params, sort_keys=True).  The text is determined by,   *)
(* and determines, the name-sorted sequence of pairs, which stands for it. *)
cache_key(query_params) == sort_keys(key_params(query_params))

(* A store that appends on every put instead of assigning by key. *)
dict_set_append(cache, key, entry) == Append(cache, entry)

(* self.search_cache[cache_key] = entry: an existing key keeps its place.  *)
dict_set(cache, key, entry) ==
    IF \E i \in 1..Len(cache) : cache[i].key = key
    THEN [i \in 1..Len(cache) |-> IF cache[i].key = key THEN entry ELSE cache[i]]
    ELSE Append(cache, entry)

(* the value stored under the key *)
cache_entry(query_params, result_data, now) ==
    LET full_images == dict_get(result_data, "images", <<>>)
    IN  [key |-> cache_key(query_params),
         query |-> arg_get(query_params, "query", VNone),
         filters |-> [location |-> arg_get(query_params, "location", VNone),
                      tags |-> arg_get(query_params, "tags", VNone),
                      quality |-> arg_get(query_params, "quality", VNone)],
         full_images |-> full_images,
         total_count |-> Len(full_images),
         timestamp |-> now,
         pagination |-> dict_get(result_data, "pagination", <<>>)]

(* A put that first sweeps the entries older than the TTL out of storage. *)
_cache_search_results_sweeping(cache, query_params, result_data, now) ==
    dict_set(SelectSeq(cache, LAMBDA e : (now - e.timestamp) < cache_ttl_minutes),
             cache_key(query_params), cache_entry(query_params, result_data, now))

_cache_search_results(cache, query_params, result_data, now) ==
    dict_set(cache, cache_key(query_params), cache_entry(query_params, result_data, now))

(* A freshness test that still accepts an entry aged exactly the TTL. *)
_is_cache_valid_inclusive(timestamp, now) == (now - timestamp) <= cache_ttl_minutes

(* elapsed_minutes < self.cache_ttl_minutes, the clock counting minutes *)
_is_cache_valid(timestamp, now) == (now - timestamp) < cache_ttl_minutes

(* A choice that ignores the timestamps and takes the first valid entry. *)
first_entry(entries) == entries[1]

(* A choice among equally recent entries that takes the last of them. *)
last_maximal(positions) == CHOOSE i \in positions : \A j \in positions : j <= i

(* max() keeps the first of the items whose key is the largest, in the     *)
(* order of the iteration: the order of the keys in the dict               *)
first_maximal(positions) == CHOOSE i \in positions : \A j \in positions : i <= j

(* max(valid_caches, key=timestamp): the first entry with the largest key  *)
max_by_timestamp(entries) ==
    entries[first_maximal({i \in 1..Len(entries) :
                \A j \in 1..Len(entries) : entries[j].timestamp <= entries[i].timestamp})]

_get_last_search_results(cache, now) ==
    IF cache = <<>> THEN None
    ELSE LET valid_caches ==
                 SelectSeq(cache, LAMBDA e : _is_cache_valid(e.timestamp, now))
         IN  IF valid_caches = <<>> THEN None
             ELSE Some(max_by_timestamp(valid_caches))

RECURSIVE _get_cached_images(_, _, _)
_get_cached_images(cache, image_ids, now) ==
    IF cache = <<>> THEN <<>>
    ELSE (IF ~_is_cache_valid(Head(cache).timestamp, now) THEN <<>>
          ELSE SelectSeq(Head(cache).full_images, LAMBDA img : list_in(img.id, image_ids)))
         \o _get_cached_images(Tail(cache), image_ids, now)

----------------------------------------------------------------------------
(* agent.py: the graph nodes                                               *)

(* names of GALLERY_TOOLS_OPTIMIZED, the keys of self.tool_map *)
(* tools_optimized.py: the list the agent takes when it is given no tools *)
GALLERY_TOOLS_OPTIMIZED ==
    <<"search_images_paginated", "filter_low_quality_images", "delete_images",
      "tag_images", "analyze_image_metadata", "get_related_images">>

(* llm.bind_tools(tools): the model with these tools on offer *)
bind_tools(tools) == {tools[i] : i \in 1..Len(tools)}

tool_map ==
    {"search_images_paginated", "filter_low_quality_images", "delete_images",
     "tag_images", "analyze_image_metadata", "get_related_images"}

action_type(tool_name) ==
    CASE tool_name \in {"search_images_paginated", "search_images"} -> "search"
      [] tool_name = "filter_low_quality_images" -> "filter"
      [] tool_name = "delete_images" -> "delete"
      [] tool_name = "analyze_image_metadata" -> "analyze"
      [] tool_name = "tag_images" -> "tag"
      [] OTHER -> "search"

(* invoke(): the AgentState a turn starts from *)
(* An initial state that carries a message of an earlier turn. *)
initial_state_with_history ==
    [conversation_history |->
         <<[role |-> "user", content |-> [kind |-> "text", tool_results |-> <<>>]]>>,
     actions_taken |-> <<>>,
     current_step |-> "initialized",
     is_complete |-> FALSE,
     error |-> None]

initial_state ==
    [conversation_history |-> <<>>,
     actions_taken |-> <<>>,
     current_step |-> "initialized",
     is_complete |-> FALSE,
     error |-> None]

(* A message list that notes the first cache entry, valid or expired. *)
_create_messages_any_entry(st, cache, now) ==
    LET note == IF cache # <<>>
                THEN <<[type |-> "system",
                        query |-> cache[1].query,
                        total_count |-> cache[1].total_count]>>
                ELSE <<>>
        history == [i \in 1..Len(st.conversation_history) |->
                       [type |-> IF st.conversation_history[i].role = "user"
                                 THEN "human" ELSE "ai",
                        content |-> st.conversation_history[i].content]]
    IN  note \o history

_create_messages(st, cache, now) ==
    LET last_search == _get_last_search_results(cache, now)
        note == IF last_search # None
                THEN <<[type |-> "system",
                        query |-> last_search[1].query,
                        total_count |-> last_search[1].total_count]>>
                ELSE <<>>
        history == [i \in 1..Len(st.conversation_history) |->
                       [type |-> IF st.conversation_history[i].role = "user"
                                 THEN "human" ELSE "ai",
                        content |-> st.conversation_history[i].content]]
    IN  note \o history

(* A loop body that reports a call of an unknown tool as an error. *)
unregistered_call_reporting(acc, tool_call) ==
    [acc EXCEPT
        !.error = Some([tool |-> tool_call.name, exc |-> "KeyError"]),
        !.tool_results = Append(@, [tool |-> tool_call.name,
                                    input |-> tool_call.args,
                                    output |-> [error |-> "KeyError"]])]

(* if tool_name in self.tool_map: has no else branch, a call of a name     *)
(* that is not registered is skipped                                       *)
unregistered_call(acc, tool_call) == acc

(* A test that sends no result to the cache. *)
is_search_call_never(tool_name) == FALSE

(* if tool_name == "search_images_paginated": the result is cached *)
is_search_call(tool_name) == tool_name = "search_images_paginated"

(* tool.invoke(tool_input) with tool_input = args or input.  An empty args *)
(* dict is falsy, so the tool is invoked with None; whether the tool       *)
(* library then runs the tool without arguments or rejects the input is    *)
(* fixed by the installed library, so both outcomes are kept               *)
(* (acc.none_input_raises).                                                *)
tool_run(acc, tool_call) ==
    IF tool_call.args = <<>> /\ acc.none_input_raises
    THEN [out |-> Raised("ValidationError"), images |-> acc.images]
    ELSE tool_invoke(tool_call.name, tool_call.args, acc.images)

(* the outcomes to tell apart: only a round with an empty args dict can    *)
(* meet the rejection                                                      *)
NoneInputOutcomes(tool_calls) ==
    IF \E k \in 1..Len(tool_calls) : tool_calls[k].args = <<>>
    THEN BOOLEAN ELSE {FALSE}

(* A round that logs an action also for a call that raised. *)
call_tool_logging_failed(acc, tool_call, now) ==
    IF tool_call.name \notin tool_map THEN unregistered_call(acc, tool_call)
    ELSE LET r == tool_run(acc, tool_call)
             logged == [acc EXCEPT
                          !.images = r.images,
                          !.actions_taken =
                              Append(@, [type |-> action_type(tool_call.name),
                                         params |-> [tool |-> tool_call.name,
                                                     input |-> tool_call.args]])]
         IN  IF r.out.raised
             THEN [logged EXCEPT
                     !.error = Some([tool |-> tool_call.name, exc |-> r.out.exc]),
                     !.tool_results = Append(@, [tool |-> tool_call.name,
                                                 input |-> tool_call.args,
                                                 output |-> [error |-> r.out.exc]])]
             ELSE [logged EXCEPT
                     !.cache = IF is_search_call(tool_call.name)
                               THEN _cache_search_results(@, tool_call.args, r.out.value, now)
                               ELSE @,
                     !.tool_results = Append(@, [tool |-> tool_call.name,
                                                 input |-> tool_call.args,
                                                 output |-> r.out.value])]

(* One iteration of the loop over response.tool_calls.  acc carries the    *)
(* store, the cache, state.actions_taken, state.error and tool_results.    *)
call_tool(acc, tool_call, now) ==
    IF tool_call.name \notin tool_map THEN unregistered_call(acc, tool_call)
    ELSE LET r == tool_run(acc, tool_call)
         IN  IF r.out.raised
             THEN [acc EXCEPT
                     !.images = r.images,
                     !.error = Some([tool |-> tool_call.name, exc |-> r.out.exc]),
                     !.tool_results = Append(@, [tool |-> tool_call.name,
                                                 input |-> tool_call.args,
                                                 output |-> [error |-> r.out.exc]])]
             ELSE [acc EXCEPT
                     !.images = r.images,
                     !.cache = IF is_search_call(tool_call.name)
                               THEN _cache_search_results(@, tool_call.args, r.out.value, now)
                               ELSE @,
                     !.actions_taken = Append(@, [type |-> action_type(tool_call.name),
                                                  params |-> [tool |-> tool_call.name,
                                                              input |-> tool_call.args]]),
                     !.tool_results = Append(@, [tool |-> tool_call.name,
                                                 input |-> tool_call.args,
                                                 output |-> r.out.value])]

RECURSIVE call_tools(_, _, _)
call_tools(acc, tool_calls, now) ==
    IF tool_calls = <<>> THEN acc
    ELSE call_tools(call_tool(acc, Head(tool_calls), now), Tail(tool_calls), now)

----------------------------------------------------------------------------
(* Inputs: what the model may answer, and how far the clock may run.       *)

MaxClock == 45

(* Steps of the wall clock between two node executions: half the TTL and  *)
(* one minute less than the TTL, which reach both sides of T + TTL.        *)
ClockSteps == {cache_ttl_minutes \div 2, cache_ttl_minutes - 1}

(* Argument maps of search calls, as ordered by the caller. *)
ArgsBeachP1 ==
    <<<<"query", VStr(s_beach)>>, <<"page", VInt(1)>>, <<"per_page", VInt(2)>>>>

ArgsBeachP1Reordered ==
    <<<<"per_page", VInt(2)>>, <<"query", VStr(s_beach)>>, <<"page", VInt(1)>>>>

ArgsBeachP2 ==
    <<<<"query", VStr(s_beach)>>, <<"page", VInt(2)>>, <<"per_page", VInt(2)>>>>

(* page 1 of the same search with the default page left out *)
ArgsBeachNoPage == <<<<"query", VStr(s_beach)>>, <<"per_page", VInt(2)>>>>

ArgsMountain == <<<<"query", VStr(s_mountain)>>>>

ArgsTagBeach ==
    <<<<"image_ids", VList(<<img_004>>)>>, <<"tags", VList(<<s_beach>>)>>>>

(* a search whose page size makes the tool raise *)
ArgsBeachZero == <<<<"query", VStr(s_beach)>>, <<"per_page", VInt(0)>>>>

ArgsFilterBlurry == <<<<"threshold", VStr(s_blurry)>>>>

ArgsDelete == <<<<"image_ids", VList(<<img_003>>)>>>>

ArgsRelated == <<<<"image_id", VStr(img_001)>>>>

CallBeachZero == [name |-> "search_images_paginated", args |-> ArgsBeachZero]

CallFilter == [name |-> "filter_low_quality_images", args |-> ArgsFilterBlurry]

CallDelete == [name |-> "delete_images", args |-> ArgsDelete]

CallAnalyze == [name |-> "analyze_image_metadata", args |-> <<>>]

CallRelated == [name |-> "get_related_images", args |-> ArgsRelated]

(* a call of the legacy search tool, which the agent does not register *)
CallUnregistered == [name |-> "search_images", args |-> ArgsMountain]

CallBeachP1 == [name |-> "search_images_paginated", args |-> ArgsBeachP1]

CallBeachP1Reordered == [name |-> "search_images_paginated", args |-> ArgsBeachP1Reordered]

CallMountain == [name |-> "search_images_paginated", args |-> ArgsMountain]

CallTagBeach == [name |-> "tag_images", args |-> ArgsTagBeach]

(* response.tool_calls of one model call: none, one call or several *)
LLMToolCalls ==
    {<<>>,
     <<CallBeachP1>>, <<CallTagBeach>>,
     <<CallBeachP1, CallBeachP1Reordered>>,
     <<CallMountain, CallBeachP1>>,
     <<CallTagBeach, CallBeachP1>>,
     <<CallBeachZero, CallMountain>>,
     <<CallUnregistered, CallRelated>>,
     <<CallFilter, CallDelete, CallAnalyze, CallRelated>>}

text_content == [kind |-> "text", tool_results |-> <<>>]

----------------------------------------------------------------------------
(* The agent: one invoke at a time, one action per graph node.             *)

NoCall == [op |-> "none"]

(* Invocations of tag_images that share the store: the sessions of the web *)
(* app share one agent and the module-level SAMPLE_IMAGES, and each runs   *)
(* in a thread of its own.                                                 *)
Threads == {1, 2}

NotRunning ==
    [at |-> "idle", image_ids |-> <<>>, tags |-> <<>>, i |-> 0, k |-> 0, updated_count |-> 0]

Init ==
    /\ SAMPLE_IMAGES = SeedImages
    /\ search_cache = <<>>
    /\ clock = 0
    /\ pc = "idle"
    /\ state = initial_state
    /\ llm_messages = <<>>
    /\ llm_with_tools = bind_tools(GALLERY_TOOLS_OPTIMIZED)
    /\ llm_response = None
    /\ last_call = NoCall
    /\ tag_calls = [t \in Threads |-> NotRunning]

(* datetime.now() moves on between two steps *)
Tick ==
    /\ \E d \in ClockSteps :
          /\ clock + d <= MaxClock
          /\ clock' = clock + d
    /\ UNCHANGED <<tag_calls, llm_with_tools, llm_response, SAMPLE_IMAGES, search_cache, pc, state, llm_messages, last_call>>

Invoke ==
    /\ pc = "idle"
    /\ state' = initial_state
    /\ pc' = "start"
    /\ UNCHANGED <<tag_calls, llm_with_tools, llm_response, SAMPLE_IMAGES, search_cache, clock, llm_messages, last_call>>

StartNode ==
    /\ pc = "start"
    /\ state' = [state EXCEPT
                    !.current_step = "start",
                    !.conversation_history =
                        Append(@, [role |-> "user", content |-> text_content])]
    /\ pc' = "process_input"
    /\ UNCHANGED <<tag_calls, llm_with_tools, llm_response, SAMPLE_IMAGES, search_cache, clock, llm_messages, last_call>>

ProcessInputNode ==
    /\ pc = "process_input"
    /\ \E tool_calls \in LLMToolCalls :
          /\ llm_messages' = _create_messages([state EXCEPT !.current_step = "process_input"],
                                              search_cache, clock)
          /\ state' = [state EXCEPT
                          !.current_step = "process_input",
                          !.conversation_history =
                              Append(@, [role |-> "assistant", content |-> text_content]),
                          !.is_complete = IF tool_calls = <<>> THEN TRUE ELSE @]
          /\ llm_response' = Some(tool_calls)
    /\ pc' = "should_call_tools"
    /\ UNCHANGED <<tag_calls, llm_with_tools, SAMPLE_IMAGES, search_cache, clock, last_call>>

(* the conditional edge after process_input, with its own model call *)
ShouldCallTools ==
    /\ pc = "should_call_tools"
    /\ \E tool_calls \in LLMToolCalls :
          /\ llm_messages' = _create_messages(state, search_cache, clock)
          /\ pc' = IF tool_calls # <<>> THEN "call_tools" ELSE "end"
    /\ UNCHANGED <<tag_calls, llm_with_tools, llm_response, SAMPLE_IMAGES, search_cache, clock, state, last_call>>

CallToolsNode ==
    /\ pc = "call_tools"
    /\ \E tool_calls \in LLMToolCalls :
       \E none_input_raises \in NoneInputOutcomes(tool_calls) :
          LET acc == call_tools([images |-> SAMPLE_IMAGES,
                                 cache |-> search_cache,
                                 actions_taken |-> state.actions_taken,
                                 error |-> state.error,
                                 tool_results |-> <<>>,
                                 none_input_raises |-> none_input_raises],
                                tool_calls, clock)
          IN  /\ llm_messages' = _create_messages([state EXCEPT !.current_step = "call_tools"],
                                                  search_cache, clock)
              /\ SAMPLE_IMAGES' = acc.images
              /\ search_cache' = acc.cache
              /\ state' = [state EXCEPT
                              !.current_step = "call_tools",
                              !.actions_taken = acc.actions_taken,
                              !.error = acc.error,
                              !.conversation_history =
                                  Append(@, [role |-> "assistant",
                                             content |-> [kind |-> "tool_results",
                                                          tool_results |-> acc.tool_results]])]
    /\ pc' = "process_results"
    /\ UNCHANGED <<tag_calls, llm_with_tools, llm_response, clock, last_call>>

(* An edge function that asks for another round. *)
_should_continue_looping(st) == "continue"

(* the edge function after process_results *)
_should_continue(st) == "end"

(* process_results, then the conditional edge: "continue" leads back to    *)
(* process_input, "end" to the end node                                    *)
ProcessResultsNode ==
    /\ pc = "process_results"
    /\ llm_messages' = _create_messages([state EXCEPT !.current_step = "process_results"],
                                        search_cache, clock)
    /\ state' = [state EXCEPT
                    !.current_step = "process_results",
                    !.conversation_history =
                        Append(@, [role |-> "assistant", content |-> text_content])]
    /\ pc' = IF _should_continue(state') = "continue" THEN "process_input" ELSE "end"
    /\ UNCHANGED <<tag_calls, llm_with_tools, llm_response, SAMPLE_IMAGES, search_cache, clock, last_call>>

(* An end node that marks the turn complete and leaves the step as it is. *)
_end_node_keeping_step(st) == [st EXCEPT !.is_complete = TRUE]

_end_node(st) == [st EXCEPT !.current_step = "end", !.is_complete = TRUE]

EndNode ==
    /\ pc = "end"
    /\ state' = _end_node(state)
    /\ pc' = "idle"
    /\ llm_response' = None
    /\ UNCHANGED <<tag_calls, llm_with_tools, SAMPLE_IMAGES, search_cache, clock, llm_messages, last_call>>

Next ==
    \/ Tick
    \/ Invoke
    \/ StartNode
    \/ ProcessInputNode
    \/ ShouldCallTools
    \/ CallToolsNode
    \/ ProcessResultsNode
    \/ EndNode

Spec == Init /\ [][Next]_vars

(* The graph runner executes the node that is due: every model call and    *)
(* every tool call returns, so each node function returns and the next one *)
(* is run.  Nothing obliges a caller to start another invoke, nor the      *)
(* clock to move between two nodes.                                        *)
SpecLive ==
    /\ Init
    /\ [][Next]_vars
    /\ WF_vars(StartNode)
    /\ WF_vars(ProcessInputNode)
    /\ WF_vars(ShouldCallTools)
    /\ WF_vars(CallToolsNode)
    /\ WF_vars(ProcessResultsNode)
    /\ WF_vars(EndNode)

----------------------------------------------------------------------------
(* The tools called directly, as examples/test_agent.py and                *)
(* examples/test_context_efficiency.py do: tool.invoke({...}).             *)

MaxPage == 3

(* requested page sizes: negative, zero, small, the default, the cap and   *)
(* one above the cap                                                       *)
PerPageInputs == {0 - 1, 0, 1, 2, DefaultPerPage, MaxPerPage, MaxPerPage + 1}

(* queries asked for every page and page size *)
DirectQueries == {s_beach, s_zzz, s_empty}

(* queries asked for the first page only *)
FirstPageQueries == {s_BEACH, s_people}

(* searches with location, tags and quality filters, one page of up to 10 *)
DirectFilteredInputs ==
    {<<<<"query", VStr(s_empty)>>, <<"tags", VList(<<s_people, s_hiking>>)>>,
       <<"per_page", VInt(MaxPerPage)>>>>,
     <<<<"query", VStr(s_empty)>>, <<"location", VStr(s_BEACH)>>,
       <<"per_page", VInt(MaxPerPage)>>>>,
     <<<<"query", VStr(s_empty)>>, <<"quality", VStr(s_good)>>,
       <<"per_page", VInt(MaxPerPage)>>>>,
     <<<<"query", VStr(s_people)>>, <<"tags", VList(<<>>)>>, <<"quality", VStr(s_empty)>>,
       <<"per_page", VInt(MaxPerPage)>>>>,
     <<<<"query", VStr(s_empty)>>, <<"location", VStr(s_mountain)>>,
       <<"tags", VList(<<s_people>>)>>, <<"quality", VStr(s_good)>>,
       <<"per_page", VInt(MaxPerPage)>>>>,
     <<<<"query", VStr(s_beach)>>, <<"tags", VList(<<s_BEACH>>)>>,
       <<"per_page", VInt(MaxPerPage)>>>>}

DirectSearchInputs ==
    {<<<<"query", VStr(q)>>, <<"page", VInt(p)>>, <<"per_page", VInt(pp)>>>> :
        q \in DirectQueries, p \in 1..MaxPage, pp \in PerPageInputs}
    \cup {<<<<"query", VStr(q)>>, <<"page", VInt(1)>>, <<"per_page", VInt(pp)>>>> :
             q \in FirstPageQueries, pp \in PerPageInputs}
    \cup {<<<<"query", VStr(q)>>>> : q \in DirectQueries \cup FirstPageQueries}
    \cup DirectFilteredInputs

DirectTagInputs ==
    {<<<<"image_ids", VList(<<img_004>>)>>, <<"tags", VList(<<s_beach>>)>>>>,
     <<<<"image_ids", VList(<<img_001, img_999>>)>>, <<"tags", VList(<<s_people, s_people>>)>>>>,
     <<<<"image_ids", VList(<<img_001>>)>>, <<"tags", VList(<<s_mountain, s_zzz>>)>>>>}

DirectSearch ==
    /\ \E tool_input \in DirectSearchInputs :
          LET r == tool_invoke("search_images_paginated", tool_input, SAMPLE_IMAGES)
          IN  /\ last_call' = [op |-> "search_images_paginated",
                               input |-> tool_input,
                               out |-> r.out]
              /\ SAMPLE_IMAGES' = r.images
    /\ UNCHANGED <<tag_calls, llm_with_tools, llm_response, search_cache, clock, pc, state, llm_messages>>

(* thresholds: the four quality names, a string that is none of them, and *)
(* no argument at all                                                      *)
DirectFilterInputs ==
    {<<<<"threshold", VStr(t)>>>> : t \in {s_excellent, s_good, s_poor, s_blurry, s_zzz}}
    \cup {<<>>}

DirectFilter ==
    /\ \E tool_input \in DirectFilterInputs :
          LET r == tool_invoke("filter_low_quality_images", tool_input, SAMPLE_IMAGES)
          IN  /\ last_call' = [op |-> "filter_low_quality_images",
                               input |-> tool_input,
                               out |-> r.out]
              /\ SAMPLE_IMAGES' = r.images
    /\ UNCHANGED <<tag_calls, llm_with_tools, llm_response, search_cache, clock, pc, state, llm_messages>>

(* search_images of tools.py: limit omitted, 0, within and beyond the      *)
(* number of matches and negative; and the filtered searches               *)
DirectLegacySearchInputs ==
    {<<<<"query", VStr(q)>>>> : q \in {s_beach, s_zzz}}
    \cup {<<<<"query", VStr(s_beach)>>, <<"limit", VInt(limit)>>>> :
             limit \in {0, 1, Len(SeedImages) + 1}}
    \cup {SelectSeq(tool_input, LAMBDA pair : pair[1] # "per_page") :
             tool_input \in DirectFilteredInputs}

DirectLegacySearch ==
    /\ \E tool_input \in DirectLegacySearchInputs :
          last_call' = [op |-> "tools.search_images",
                        input |-> tool_input,
                        out |-> legacy_search_images(
                                    SAMPLE_IMAGES,
                                    arg_get(tool_input, "query", VNone).s,
                                    opt_str(arg_get(tool_input, "location", VNone)),
                                    opt_list(arg_get(tool_input, "tags", VNone)),
                                    opt_str(arg_get(tool_input, "quality", VNone)),
                                    IF arg_get(tool_input, "limit", VNone).t = "none"
                                    THEN None
                                    ELSE Some(arg_get(tool_input, "limit", VNone).i))]
    /\ UNCHANGED <<tag_calls, llm_with_tools, llm_response, SAMPLE_IMAGES, search_cache, clock, pc, state, llm_messages>>

(* examples/test_agent.py calls the tools of tools.py *)
DirectLegacyFilter ==
    /\ \E tool_input \in DirectFilterInputs :
          last_call' = [op |-> "tools.filter_low_quality_images",
                        input |-> tool_input,
                        out |-> legacy_filter_low_quality_images(
                                    SAMPLE_IMAGES,
                                    arg_get(tool_input, "threshold", VStr(s_poor)).s)]
    /\ UNCHANGED <<tag_calls, llm_with_tools, llm_response, SAMPLE_IMAGES, search_cache, clock, pc, state, llm_messages>>

(* one existing id named once more than the store has records *)
RepeatedId == [k \in 1..(Len(SeedImages) + 1) |-> img_001]

(* id lists: an unknown id before a known one, known ids against store    *)
(* order, one id named twice, one id named seven times, and the empty list *)
DirectDeleteInputs ==
    {<<<<"image_ids", VList(ids)>>>> :
        ids \in {<<img_999, img_003>>, <<img_002, img_001>>, <<img_001, img_001>>,
                 RepeatedId, <<>>}}

DirectDelete ==
    /\ \E tool_input \in DirectDeleteInputs :
          LET r == tool_invoke("delete_images", tool_input, SAMPLE_IMAGES)
          IN  /\ last_call' = [op |-> "delete_images",
                               input |-> tool_input,
                               out |-> r.out]
              /\ SAMPLE_IMAGES' = r.images
    /\ UNCHANGED <<tag_calls, llm_with_tools, llm_response, search_cache, clock, pc, state, llm_messages>>

DirectLegacyDelete ==
    /\ \E tool_input \in DirectDeleteInputs :
          last_call' = [op |-> "tools.delete_images",
                        input |-> tool_input,
                        out |-> legacy_delete_images(
                                    SAMPLE_IMAGES,
                                    arg_get(tool_input, "image_ids", VNone).l)]
    /\ UNCHANGED <<tag_calls, llm_with_tools, llm_response, SAMPLE_IMAGES, search_cache, clock, pc, state, llm_messages>>

(* a record with two relations, one with one, and an id of no record; the *)
(* limit omitted, negative, zero and one                                   *)
DirectRelatedInputs ==
    {<<<<"image_id", VStr(id)>>>> : id \in {img_001, img_004, img_999}}
    \cup {<<<<"image_id", VStr(id)>>, <<"limit", VInt(limit)>>>> :
            id \in {img_001, img_004, img_999}, limit \in {0 - 1, 0, 1}}

DirectRelated ==
    /\ \E tool_input \in DirectRelatedInputs :
          LET r == tool_invoke("get_related_images", tool_input, SAMPLE_IMAGES)
          IN  /\ last_call' = [op |-> "get_related_images",
                               input |-> tool_input,
                               out |-> r.out]
              /\ SAMPLE_IMAGES' = r.images
    /\ UNCHANGED <<tag_calls, llm_with_tools, llm_response, search_cache, clock, pc, state, llm_messages>>

DirectLegacyRelated ==
    /\ \E image_id \in {img_001, img_999} :
          last_call' = [op |-> "tools.get_related_images",
                        input |-> <<<<"image_id", VStr(image_id)>>>>,
                        out |-> legacy_get_related_images(SAMPLE_IMAGES, image_id)]
    /\ UNCHANGED <<tag_calls, llm_with_tools, llm_response, SAMPLE_IMAGES, search_cache, clock, pc, state, llm_messages>>

DirectAnalyze ==
    /\ LET r == tool_invoke("analyze_image_metadata", <<>>, SAMPLE_IMAGES)
       IN  /\ last_call' = [op |-> "analyze_image_metadata",
                            input |-> <<>>,
                            out |-> r.out]
           /\ SAMPLE_IMAGES' = r.images
    /\ UNCHANGED <<tag_calls, llm_with_tools, llm_response, search_cache, clock, pc, state, llm_messages>>

DirectTag ==
    /\ \E tool_input \in DirectTagInputs :
          LET r == tool_invoke("tag_images", tool_input, SAMPLE_IMAGES)
          IN  /\ last_call' = [op |-> "tag_images",
                               input |-> tool_input,
                               out |-> r.out]
              /\ SAMPLE_IMAGES' = r.images
    /\ UNCHANGED <<tag_calls, llm_with_tools, llm_response, search_cache, clock, pc, state, llm_messages>>

NextTools ==
    \/ DirectSearch
    \/ DirectLegacySearch
    \/ DirectTag
    \/ DirectFilter
    \/ DirectLegacyFilter
    \/ DirectDelete
    \/ DirectLegacyDelete
    \/ DirectRelated
    \/ DirectLegacyRelated
    \/ DirectAnalyze

SpecTools == Init /\ [][NextTools]_vars

----------------------------------------------------------------------------
(* The cache methods of GalleryAgent called directly on a fresh agent,     *)
(* as examples/example_multi_step_workflow.py does with the read methods.  *)

CacheQueryParams == {ArgsBeachP1, ArgsBeachP1Reordered, ArgsBeachP2, ArgsBeachNoPage}

(* Result dicts handed to _cache_search_results: the dict the repository's *)
(* search tool returns for page 1 of "beach", and dicts that carry the     *)
(* 'images' list of full records the method reads.                         *)
CacheResultData ==
    {search_images_paginated(SeedImages, s_beach, None, None, None, 1, 2).value,
     [images |-> <<SeedImages[1], SeedImages[2]>>,
      pagination |-> [page |-> 1, per_page |-> 2, total |-> 2, pages |-> 1]]}

LookupIds == {<<img_001>>, <<img_002, img_999>>}

CachePut ==
    /\ \E query_params \in CacheQueryParams, result_data \in CacheResultData :
          /\ search_cache' = _cache_search_results(search_cache, query_params, result_data, clock)
          /\ last_call' = [op |-> "_cache_search_results",
                           input |-> query_params,
                           at |-> clock]
    /\ UNCHANGED <<tag_calls, llm_with_tools, llm_response, SAMPLE_IMAGES, clock, pc, state, llm_messages>>

CacheGetLast ==
    /\ last_call' = [op |-> "_get_last_search_results",
                     at |-> clock,
                     out |-> _get_last_search_results(search_cache, clock)]
    /\ UNCHANGED <<tag_calls, llm_with_tools, llm_response, SAMPLE_IMAGES, search_cache, clock, pc, state, llm_messages>>

CacheLookup ==
    /\ \E image_ids \in LookupIds :
          last_call' = [op |-> "_get_cached_images",
                        input |-> image_ids,
                        at |-> clock,
                        out |-> _get_cached_images(search_cache, image_ids, clock)]
    /\ UNCHANGED <<tag_calls, llm_with_tools, llm_response, SAMPLE_IMAGES, search_cache, clock, pc, state, llm_messages>>

(* app.py, Cache Statistics: len(agent.search_cache) *)
cache_size(cache) == Len(cache)

NextCache ==
    \/ Tick
    \/ CachePut
    \/ CacheGetLast
    \/ CacheLookup

SpecCache == Init /\ [][NextCache]_vars

----------------------------------------------------------------------------
(* tag_images run by two threads on the one store, a step per evaluation   *)
(* that another thread can come between: the membership test               *)
(* 'tag not in image.tags' and the call image.tags.append(tag).            *)

(* a call on one record and a call on two records, with one and two tags;  *)
(* every call has at least one tag                                         *)
ConcurrentTagInputs ==
    {[image_ids |-> <<img_001>>, tags |-> <<s_zzz>>],
     [image_ids |-> <<img_004, img_001>>, tags |-> <<s_beach, s_zzz>>]}

(* for image in SAMPLE_IMAGES: if image.id in image_ids: the next record   *)
(* at or after position from that the call names, 0 when there is none     *)
next_named(images, image_ids, from) ==
    LET named == {j \in from..Len(images) : list_in(images[j].id, image_ids)}
    IN  IF named = {} THEN 0 ELSE CHOOSE j \in named : \A m \in named : j <= m

(* enter the tag loop of the next named record, or leave the record loop *)
enter_record(call, images, from) ==
    LET j == next_named(images, call.image_ids, from)
    IN  IF j = 0 THEN [call EXCEPT !.at = "return"]
        ELSE [call EXCEPT !.at = "test", !.i = j, !.k = 1]

(* the next tag of the record, or updated_count += 1 and the next record *)
next_tag(call, images) ==
    IF call.k < Len(call.tags)
    THEN [call EXCEPT !.at = "test", !.k = @ + 1]
    ELSE enter_record([call EXCEPT !.updated_count = @ + 1], images, call.i + 1)

TagImagesCall(t) ==
    /\ tag_calls[t].at = "idle"
    /\ \E input \in ConcurrentTagInputs :
          tag_calls' = [tag_calls EXCEPT ![t] =
              enter_record([NotRunning EXCEPT !.image_ids = input.image_ids,
                                              !.tags = input.tags],
                           SAMPLE_IMAGES, 1)]
    /\ UNCHANGED <<llm_with_tools, llm_response, SAMPLE_IMAGES, search_cache, clock, pc, state, llm_messages, last_call>>

(* if tag not in image.tags *)
TagImagesTest(t) ==
    LET call == tag_calls[t]
    IN  /\ call.at = "test"
        /\ tag_calls' = [tag_calls EXCEPT ![t] =
               IF list_in(call.tags[call.k], SAMPLE_IMAGES[call.i].tags)
               THEN next_tag(call, SAMPLE_IMAGES)
               ELSE [call EXCEPT !.at = "append"]]
        /\ UNCHANGED <<llm_with_tools, llm_response, SAMPLE_IMAGES, search_cache, clock, pc, state, llm_messages, last_call>>

(* image.tags.append(tag) *)
TagImagesAppend(t) ==
    LET call == tag_calls[t]
    IN  /\ call.at = "append"
        /\ SAMPLE_IMAGES' = [SAMPLE_IMAGES EXCEPT ![call.i].tags = Append(@, call.tags[call.k])]
        /\ tag_calls' = [tag_calls EXCEPT ![t] = next_tag(call, SAMPLE_IMAGES)]
        /\ UNCHANGED <<llm_with_tools, llm_response, search_cache, clock, pc, state, llm_messages, last_call>>

(* return json.dumps({... "updated_count": updated_count ...}) *)
TagImagesReturn(t) ==
    LET call == tag_calls[t]
    IN  /\ call.at = "return"
        /\ last_call' = [op |-> "tag_images",
                         input |-> <<<<"image_ids", VList(call.image_ids)>>,
                                     <<"tags", VList(call.tags)>>>>,
                         out |-> Returned([success |-> TRUE,
                                           message |-> [updated |-> call.updated_count],
                                           updated_count |-> call.updated_count,
                                           tags_added |-> call.tags,
                                           image_count |-> Len(call.image_ids)])]
        /\ tag_calls' = [tag_calls EXCEPT ![t] = NotRunning]
        /\ UNCHANGED <<llm_with_tools, llm_response, SAMPLE_IMAGES, search_cache, clock, pc, state, llm_messages>>

NextConcurrent ==
    \E t \in Threads :
        \/ TagImagesCall(t)
        \/ TagImagesTest(t)
        \/ TagImagesAppend(t)
        \/ TagImagesReturn(t)

SpecConcurrent == Init /\ [][NextConcurrent]_vars

----------------------------------------------------------------------------
(* Properties of the agent's cache writes (Spec).                          *)

(* tool_results of the round that call_tools has just run *)
RoundResults ==
    IF pc = "process_results"
    THEN state.conversation_history[Len(state.conversation_history)].content.tool_results
    ELSE <<>>

(* a completed search call among the results of the round *)
IsSearchResult(r) ==
    r.tool = "search_images_paginated" /\ "pagination" \in DOMAIN r.output

(* the names and values of an argument map, whatever their order *)
ArgSet(pairs) == {pairs[k] : k \in 1..Len(pairs)}

CacheEntry(key) == search_cache[CHOOSE i \in 1..Len(search_cache) : search_cache[i].key = key]

(* C1: after a search_images_paginated call handled by call_tools, the     *)
(* cache entry stored for that call has a full_images list as long as the  *)
(* unpaginated total match count of the search, and its total_count equals *)
(* that count, whatever page and per_page were requested.                  *)
C1_CachePopulation ==
    \A i \in 1..Len(RoundResults) :
        IsSearchResult(RoundResults[i]) =>
            LET e == CacheEntry(cache_key(RoundResults[i].input))
                total == RoundResults[i].output.pagination.total
            IN  Len(e.full_images) = total /\ e.total_count = total

(* C2: two search calls whose argument maps hold the same names and values *)
(* in a different order get the same cache key, so the later call          *)
(* overwrites the entry of the earlier one: no two cache entries have the  *)
(* same names and values.                                                  *)
C2_KeyCanonical ==
    /\ \A i, j \in 1..Len(search_cache) :
          i # j => ArgSet(search_cache[i].key) # ArgSet(search_cache[j].key)
    /\ \A i, j \in 1..Len(RoundResults) :
          (/\ IsSearchResult(RoundResults[i])
           /\ IsSearchResult(RoundResults[j])
           /\ ArgSet(RoundResults[i].input) = ArgSet(RoundResults[j].input))
          => /\ cache_key(RoundResults[i].input) = cache_key(RoundResults[j].input)
             /\ \E k \in 1..Len(search_cache) :
                   search_cache[k].key = cache_key(RoundResults[i].input)

(* One round held the same search twice, the arguments in two different    *)
(* orders, and the cache holds one entry.                                  *)
C2_Witness ==
    /\ Len(search_cache) = 1
    /\ \E i, j \in 1..Len(RoundResults) :
          /\ i < j
          /\ IsSearchResult(RoundResults[i])
          /\ IsSearchResult(RoundResults[j])
          /\ RoundResults[i].input # RoundResults[j].input
          /\ ArgSet(RoundResults[i].input) = ArgSet(RoundResults[j].input)

NoDuplicateKeys(cache) ==
    \A i, j \in 1..Len(cache) : i # j => cache[i].key # cache[j].key

(* keys put by the round that leads to the primed state *)
RoundKeys(results) ==
    {cache_key(results[i].input) : i \in {k \in 1..Len(results) : IsSearchResult(results[k])}}

CacheKeys(cache) == {cache[i].key : i \in 1..Len(cache)}

(* C3: the cache never holds two entries with the same key; a put for a    *)
(* key that is present replaces that entry in place, with the time of the  *)
(* put and the pagination of the new result, the other entries stay as     *)
(* they were, and the entry count grows only by the keys that were absent. *)
C3_OneEntryPerKey ==
    [][/\ NoDuplicateKeys(search_cache')
       /\ pc = "call_tools" =>
            LET results == RoundResults'
                keys == RoundKeys(results)
            IN  /\ Len(search_cache') =
                       Len(search_cache) + Cardinality(keys \ CacheKeys(search_cache))
                /\ \A i \in 1..Len(search_cache) :
                       /\ search_cache'[i].key = search_cache[i].key
                       /\ search_cache[i].key \notin keys => search_cache'[i] = search_cache[i]
                /\ \A i \in 1..Len(search_cache') :
                       search_cache'[i].key \in keys =>
                           /\ search_cache'[i].timestamp = clock
                           /\ \E k \in 1..Len(results) :
                                 /\ IsSearchResult(results[k])
                                 /\ cache_key(results[k].input) = search_cache'[i].key
                                 /\ search_cache'[i].pagination = results[k].output.pagination
       /\ pc # "call_tools" => search_cache' = search_cache]_vars

(* An entry was overwritten after a later key had been inserted: it kept   *)
(* its place in front and carries the newer time and the newer contents.   *)
C3_Witness ==
    /\ Len(search_cache) = 2
    /\ search_cache[1].timestamp > search_cache[2].timestamp
    /\ search_cache[1].pagination.total = 4

IsValidAt(timestamp, now) == now - timestamp < 30

(* C4: an entry created at time T is valid at clock value now exactly when *)
(* now - T < cache_ttl_minutes (30): valid one minute before T + TTL,      *)
(* invalid at T + TTL, and once invalid it stays invalid until it is       *)
(* rewritten.                                                              *)
C4_TTLBoundary ==
    /\ [](\A i \in 1..Len(search_cache) :
            /\ _is_cache_valid(search_cache[i].timestamp, clock)
                  <=> IsValidAt(search_cache[i].timestamp, clock)
            /\ clock = search_cache[i].timestamp + 29
                  => _is_cache_valid(search_cache[i].timestamp, clock)
            /\ clock >= search_cache[i].timestamp + 30
                  => ~_is_cache_valid(search_cache[i].timestamp, clock)
            /\ _get_last_search_results(search_cache, clock) # None
                  => IsValidAt(_get_last_search_results(search_cache, clock)[1].timestamp, clock))
    /\ [][\A i \in 1..Len(search_cache) :
            (/\ ~_is_cache_valid(search_cache[i].timestamp, clock)
             /\ search_cache'[i].timestamp = search_cache[i].timestamp)
            => ~_is_cache_valid(search_cache'[i].timestamp, clock')]_vars

(* An entry has reached its TTL exactly and is no longer valid, while a    *)
(* younger entry of the same cache still is.                               *)
C4_Witness ==
    \E i, j \in 1..Len(search_cache) :
        /\ clock = search_cache[j].timestamp + 30
        /\ ~_is_cache_valid(search_cache[j].timestamp, clock)
        /\ clock < search_cache[i].timestamp + 30
        /\ _is_cache_valid(search_cache[i].timestamp, clock)

----------------------------------------------------------------------------
(* Properties of the cache reads (SpecCache).                              *)

StoreIds == {SeedImages[i].id : i \in 1..Len(SeedImages)} \cup {img_999}

Occurrences(records, id) == Cardinality({k \in 1..Len(records) : records[k].id = id})

(* how often a record with this id occurs in the entries valid at now *)
RECURSIVE ValidOccurrences(_, _, _)
ValidOccurrences(cache, id, now) ==
    IF cache = <<>> THEN 0
    ELSE (IF IsValidAt(Head(cache).timestamp, now)
          THEN Occurrences(Head(cache).full_images, id) ELSE 0)
         + ValidOccurrences(Tail(cache), id, now)

(* C5: no operation removes an entry: the number of stored entries never   *)
(* decreases and every key stays where it is.  Expired entries remain      *)
(* counted by the cache-size statistic, but the most-recent read never     *)
(* returns one and the lookup by ids takes records from valid entries only.*)
C5_SoftExpiry ==
    /\ [][/\ cache_size(search_cache') >= cache_size(search_cache)
          /\ \A i \in 1..Len(search_cache) : search_cache'[i].key = search_cache[i].key]_vars
    /\ [](/\ cache_size(search_cache) = Cardinality(CacheKeys(search_cache))
          /\ (last_call.op = "_get_last_search_results" /\ last_call.out # None)
                => IsValidAt(last_call.out[1].timestamp, last_call.at)
          /\ last_call.op = "_get_cached_images"
                => \A id \in StoreIds :
                      Occurrences(last_call.out, id) =
                          IF list_in(id, last_call.input)
                          THEN ValidOccurrences(search_cache, id, last_call.at)
                          ELSE 0)

(* A lookup ran while the cache held an expired entry and a valid entry    *)
(* that both contain a requested id; only the valid entry contributed.     *)
C5_Witness ==
    /\ last_call.op = "_get_cached_images"
    /\ last_call.at = clock
    /\ cache_size(search_cache) >= 2
    /\ \E i, j \in 1..Len(search_cache) :
          /\ ~IsValidAt(search_cache[i].timestamp, clock)
          /\ IsValidAt(search_cache[j].timestamp, clock)
          /\ \E id \in StoreIds :
                /\ list_in(id, last_call.input)
                /\ Occurrences(search_cache[i].full_images, id) = 1
                /\ Occurrences(search_cache[j].full_images, id) = 1
                /\ Occurrences(last_call.out, id) = 1

(* C6: _get_last_search_results returns None exactly when no entry is      *)
(* valid at the time of the call (the cache empty, or every entry          *)
(* expired); otherwise it returns a valid entry of the cache whose         *)
(* timestamp is the largest among the valid entries.                       *)
C6_MostRecentValid ==
    last_call.op = "_get_last_search_results" =>
        LET valid == {i \in 1..Len(search_cache) :
                        IsValidAt(search_cache[i].timestamp, last_call.at)}
        IN  /\ last_call.out = None <=> valid = {}
            /\ last_call.out # None =>
                  \E i \in valid :
                      /\ search_cache[i] = last_call.out[1]
                      /\ \A j \in valid :
                            search_cache[j].timestamp <= search_cache[i].timestamp

(* The read returned an entry while the cache also held an expired entry   *)
(* and an older valid one, the older one stored in front of it.            *)
C6_Witness ==
    /\ last_call.op = "_get_last_search_results"
    /\ last_call.at = clock
    /\ last_call.out # None
    /\ \E i, j, k \in 1..Len(search_cache) :
          /\ ~IsValidAt(search_cache[i].timestamp, clock)
          /\ IsValidAt(search_cache[j].timestamp, clock)
          /\ search_cache[j].timestamp < search_cache[k].timestamp
          /\ j < k
          /\ search_cache[k] = last_call.out[1]

----------------------------------------------------------------------------
(* Properties of the paginated search called directly (SpecTools).         *)

IsSearchCall == last_call.op = "search_images_paginated" /\ ~last_call.out.raised

SearchQueryOf(tool_input) == arg_get(tool_input, "query", VNone).s

RequestedPage(tool_input) == arg_get(tool_input, "page", VInt(1)).i

RequestedPerPage(tool_input) == arg_get(tool_input, "per_page", VInt(5)).i

(* the match set of the query of the latest call, over the store as it is *)
MatchSet(tool_input) ==
    search_results(SAMPLE_IMAGES, SearchQueryOf(tool_input),
                   opt_str(arg_get(tool_input, "location", VNone)),
                   opt_list(arg_get(tool_input, "tags", VNone)),
                   opt_str(arg_get(tool_input, "quality", VNone)))

Summaries(records) == [i \in 1..Len(records) |-> _create_image_summary(records[i])]

CeilDiv(n, p) == CHOOSE k \in 0..n : k * p >= n /\ (k = 0 \/ (k - 1) * p < n)

(* the summary list the tool returns for page k of the same search *)
PageOf(tool_input, k) ==
    tool_invoke("search_images_paginated",
                SelectSeq(tool_input, LAMBDA pair : pair[1] # "page")
                    \o <<<<"page", VInt(k)>>>>,
                SAMPLE_IMAGES).out.value.summary

RECURSIVE ConcatPages(_, _, _)
ConcatPages(tool_input, k, pages) ==
    IF k > pages THEN <<>>
    ELSE PageOf(tool_input, k) \o ConcatPages(tool_input, k + 1, pages)

(* C8: for a search with N matches and effective page size P in 1..10 the  *)
(* reported page count is ceil(N / P), and the pages 1..ceil(N / P) taken  *)
(* in order against the unchanged store are the whole match set in store   *)
(* order, no record missing and none repeated.                             *)
C8_Pagination ==
    IsSearchCall =>
        LET pg == last_call.out.value.pagination
            n == Len(MatchSet(last_call.input))
        IN  (pg.per_page >= 1 /\ pg.per_page <= 10) =>
                /\ pg.total = n
                /\ pg.pages = CeilDiv(n, pg.per_page)
                /\ ConcatPages(last_call.input, 1, pg.pages)
                      = Summaries(MatchSet(last_call.input))

(* A search of several pages whose last page is not full. *)
C8_Witness ==
    /\ IsSearchCall
    /\ last_call.out.value.pagination.per_page = 2
    /\ last_call.out.value.pagination.total = 3
    /\ last_call.out.value.pagination.pages = 2
    /\ RequestedPage(last_call.input) = 2
    /\ Len(last_call.out.value.summary) = 1

(* C9: the result returned by the search holds the unpaginated total, the  *)
(* page slice, the page count, and the booleans has_next (page < pages)    *)
(* and has_prev (page > 1).                                                *)
C9_ResultFields ==
    IsSearchCall =>
        LET v == last_call.out.value
            page == RequestedPage(last_call.input)
            flags == IF "has_next" \in DOMAIN v THEN v ELSE v.pagination
        IN  /\ v.pagination.total = Len(MatchSet(last_call.input))
            /\ v.summary = PageOf(last_call.input, page)
            /\ v.pagination.per_page >= 1
                  => v.pagination.pages = CeilDiv(v.pagination.total, v.pagination.per_page)
            /\ {"has_next", "has_prev"} \subseteq DOMAIN flags
            /\ flags.has_next = (page < v.pagination.pages)
            /\ flags.has_prev = (page > 1)

(* C10: the search uses min(per_page, 10) as its page size: the reported   *)
(* per_page is that minimum and never exceeds 10, and the summary list     *)
(* never has more than 10 elements nor, for a positive size, more than the *)
(* page size.                                                              *)
C10_PerPageClamp ==
    IsSearchCall =>
        LET v == last_call.out.value
            requested == RequestedPerPage(last_call.input)
        IN  /\ v.pagination.per_page = (IF requested <= 10 THEN requested ELSE 10)
            /\ v.pagination.per_page <= 10
            /\ Len(v.summary) <= 10
            /\ v.pagination.per_page >= 1 => Len(v.summary) <= v.pagination.per_page

(* A call asked for more than the cap and was served with the cap. *)
C10_Witness ==
    /\ IsSearchCall
    /\ RequestedPerPage(last_call.input) = 11
    /\ last_call.out.value.pagination.per_page = 10
    /\ Len(last_call.out.value.summary) = 6

(* C11: a search with zero matching records, or with a page beyond the     *)
(* last page of its match set, returns without raising, with success true, *)
(* an empty summary list, and pagination metadata whose total and page     *)
(* count are those of the full match set.                                  *)
C11_EmptyIsSuccess ==
    last_call.op = "search_images_paginated" =>
        LET n == Len(MatchSet(last_call.input))
            P == clamp_per_page(RequestedPerPage(last_call.input))
            page == RequestedPage(last_call.input)
            empty_case == n = 0 \/ (P >= 1 /\ page > CeilDiv(n, P))
            last_page == IF n = 0 THEN 0 ELSE CeilDiv(n, P)
        IN  empty_case =>
                /\ ~last_call.out.raised
                /\ last_call.out.value.success = TRUE
                /\ last_call.out.value.summary = <<>>
                /\ last_call.out.value.pagination.total = n
                /\ last_call.out.value.pagination.pages = last_page

(* needle occurs in hay when both are put in lower case *)
ContainsIgnoringCase(hay, needle) == str_in(lower(needle), lower(hay))

(* a filter argument counts as given when it is present and not empty *)
FilterGiven(tool_input, name) ==
    LET v == arg_get(tool_input, name, VNone)
    IN  v.t # "none" /\ (v.s # <<>> \/ v.l # <<>>)

(* the matching policy for one record and one argument map *)
PolicyMatch(rec, tool_input) ==
    LET q == SearchQueryOf(tool_input)
        loc == arg_get(tool_input, "location", VNone).s
        want == arg_get(tool_input, "tags", VNone).l
        qual == arg_get(tool_input, "quality", VNone).s
    IN  /\ \/ q = <<>>
           \/ ContainsIgnoringCase(rec.filename, q)
           \/ \E t \in 1..Len(rec.tags) : ContainsIgnoringCase(rec.tags[t], q)
           \/ (rec.location # None /\ ContainsIgnoringCase(rec.location[1], q))
        /\ FilterGiven(tool_input, "location") =>
              (rec.location # None /\ ContainsIgnoringCase(rec.location[1], loc))
        /\ FilterGiven(tool_input, "tags") =>
              \E a \in 1..Len(want), b \in 1..Len(rec.tags) : want[a] = rec.tags[b]
        /\ FilterGiven(tool_input, "quality") => rec.quality = Some(qual)

PolicyMatches(tool_input) ==
    SelectSeq(SAMPLE_IMAGES, LAMBDA rec : PolicyMatch(rec, tool_input))

(* C12: a record is in the match set of a search exactly when the text     *)
(* term is empty or a case-insensitive substring of its filename, a tag or *)
(* its location, and each given filter holds (location contained           *)
(* case-insensitively, some requested tag equal to a tag of the record,    *)
(* quality equal): the reported total is the number of such records, and a *)
(* first page that has room for all of them lists exactly them.            *)
C12_MatchingPolicy ==
    IsSearchCall =>
        LET v == last_call.out.value
            expected == PolicyMatches(last_call.input)
        IN  /\ v.pagination.total = Len(expected)
            /\ (RequestedPage(last_call.input) = 1 /\ v.pagination.per_page >= Len(expected))
                  => v.summary = Summaries(expected)

(* A search with a two-tag filter returned the records that carry either   *)
(* tag, none of which carries both.                                        *)
C12_Witness ==
    /\ IsSearchCall
    /\ arg_get(last_call.input, "tags", VNone).l = <<s_people, s_hiking>>
    /\ Len(last_call.out.value.summary) = 3
    /\ last_call.out.value.pagination.total = 3

----------------------------------------------------------------------------
(* Properties of the quality filter called directly (SpecTools).           *)

IsFilterCall == last_call.op = "filter_low_quality_images"

IsLegacyFilterCall == last_call.op = "tools.filter_low_quality_images"

RequestedThreshold == arg_get(last_call.input, "threshold", VStr(s_poor)).s

IdsOf(records) == [i \in 1..Len(records) |-> records[i].id]

(* C13: for every threshold, one of the four quality names or not, the     *)
(* quality filter puts each record of the store in exactly one of removed  *)
(* and kept: the two lists are disjoint, together they hold the whole      *)
(* store, and removed_count + kept_count is the number of records.         *)
C13_FilterPartition ==
    /\ IsLegacyFilterCall =>
          LET d == last_call.out.value.data
          IN  /\ \A i \in 1..Len(SAMPLE_IMAGES) :
                    Occurrences(d.removed, SAMPLE_IMAGES[i].id)
                        + Occurrences(d.kept, SAMPLE_IMAGES[i].id) = 1
              /\ Len(d.removed) + Len(d.kept) = Len(SAMPLE_IMAGES)
              /\ d.total_processed = Len(SAMPLE_IMAGES)
    /\ IsFilterCall =>
          LET v == last_call.out.value
          IN  /\ ~last_call.out.raised
              /\ v.removed_count + v.kept_count = Len(SAMPLE_IMAGES)
              /\ v.removed_count >= 0 /\ v.kept_count >= 0
              /\ Len(v.removed_sample) <= v.removed_count

(* A threshold that is not a quality name split the store into a removed   *)
(* and a kept part, both non-empty.                                        *)
C13_Witness ==
    /\ IsLegacyFilterCall
    /\ RequestedThreshold = s_zzz
    /\ Len(last_call.out.value.data.removed) = 1
    /\ Len(last_call.out.value.data.kept) = 5

RankOf(name) ==
    CASE name = s_excellent -> 4
      [] name = s_good -> 3
      [] name = s_poor -> 2
      [] name = s_blurry -> 1

QualityNames == {s_excellent, s_good, s_poor, s_blurry}

(* the records the rule marks for removal under a named threshold *)
RuleRemoved(threshold) ==
    SelectSeq(SAMPLE_IMAGES,
              LAMBDA rec : /\ rec.quality # None
                           /\ rec.quality[1] \in QualityNames
                           /\ RankOf(rec.quality[1]) <= RankOf(threshold))

(* C14: with ranks excellent 4, good 3, poor 2, blurry 1, a record is      *)
(* reported as removed exactly when it has a quality whose rank is at most *)
(* the threshold's rank; with threshold "poor" on the six seed records the *)
(* removed set is {img_003} and the kept set is the other five.            *)
C14_FilterRule ==
    /\ (IsLegacyFilterCall /\ RequestedThreshold \in QualityNames) =>
          LET d == last_call.out.value.data
          IN  /\ d.removed = RuleRemoved(RequestedThreshold)
              /\ \A i \in 1..Len(SAMPLE_IMAGES) :
                    list_in(SAMPLE_IMAGES[i], d.kept)
                        <=> ~list_in(SAMPLE_IMAGES[i], RuleRemoved(RequestedThreshold))
    /\ (IsFilterCall /\ RequestedThreshold \in QualityNames) =>
          LET v == last_call.out.value
              expected == RuleRemoved(RequestedThreshold)
          IN  /\ v.removed_count = Len(expected)
              /\ v.removed_sample = Summaries(py_slice(expected, 0, 5))
    /\ (IsLegacyFilterCall /\ RequestedThreshold = s_poor) =>
          /\ IdsOf(last_call.out.value.data.removed) = <<SeedImages[3].id>>
          /\ IdsOf(last_call.out.value.data.kept)
                = <<img_001, img_002, img_004, SeedImages[5].id, SeedImages[6].id>>
    /\ (IsFilterCall /\ RequestedThreshold = s_poor) =>
          /\ IdsOf(last_call.out.value.removed_sample) = <<SeedImages[3].id>>
          /\ last_call.out.value.removed_count = 1
          /\ last_call.out.value.kept_count = 5

(* The threshold "blurry" removed the one record ranked exactly at it. *)
C14_Witness ==
    /\ IsLegacyFilterCall
    /\ RequestedThreshold = s_blurry
    /\ IdsOf(last_call.out.value.data.removed) = <<SeedImages[3].id>>

----------------------------------------------------------------------------
(* Properties of tag_images and delete_images called directly (SpecTools). *)

IsTagCall == last_call.op = "tag_images"

(* how often x occurs in the list l *)
CountIn(l, x) == Cardinality({k \in 1..Len(l) : l[k] = x})

(* C15: applying tag_images with the same ids and tags twice in a row      *)
(* leaves every record with the tag list it had after the first            *)
(* application: the second of two consecutive identical calls changes no   *)
(* record of the store.                                                    *)
C15_TagIdempotence ==
    [][(/\ IsTagCall
        /\ last_call'.op = "tag_images"
        /\ last_call'.input = last_call.input)
          => SAMPLE_IMAGES' = SAMPLE_IMAGES]_vars

(* A tag list given with a repeated tag was applied to a record that did   *)
(* not have the tag, which now has it once.                                *)
C15_Witness ==
    /\ IsTagCall
    /\ arg_get(last_call.input, "tags", VNone).l = <<s_people, s_people>>
    /\ CountIn(SAMPLE_IMAGES[1].tags, s_people) = 1
    /\ SAMPLE_IMAGES[1].tags = Append(SeedImages[1].tags, s_people)

IsDeleteCall == last_call.op = "delete_images"

IsLegacyDeleteCall == last_call.op = "tools.delete_images"

RequestedIds == arg_get(last_call.input, "image_ids", VNone).l

(* the ids of the records in the store *)
RecordIds == {SAMPLE_IMAGES[i].id : i \in 1..Len(SAMPLE_IMAGES)}

(* the requested ids that name a record, in the order of the request *)
ExistingRequested == SelectSeq(RequestedIds, LAMBDA id : id \in RecordIds)

(* C16: delete_images always returns success true; its deleted_ids are the *)
(* requested ids that exist in the store, in request order, the others     *)
(* being dropped without an error, and deleted_count is the length of      *)
(* deleted_ids; for ["img_999", "img_003"] it reports img_003 alone and a  *)
(* count of 1.                                                             *)
C16_DeleteResult ==
    /\ IsDeleteCall =>
          /\ ~last_call.out.raised
          /\ last_call.out.value.success = TRUE
          /\ last_call.out.value.deleted_ids = ExistingRequested
          /\ last_call.out.value.deleted_count = Len(last_call.out.value.deleted_ids)
          /\ RequestedIds = <<img_999, img_003>> =>
                /\ last_call.out.value.deleted_ids = <<img_003>>
                /\ last_call.out.value.deleted_count = 1
    /\ IsLegacyDeleteCall =>
          /\ ~last_call.out.raised
          /\ last_call.out.value.success = TRUE
          /\ last_call.out.value.data.deleted_ids = ExistingRequested
          /\ last_call.out.value.data.count = Len(last_call.out.value.data.deleted_ids)

(* Two existing ids requested against the order of the store came back in  *)
(* the order of the request.                                               *)
C16_Witness ==
    /\ IsDeleteCall
    /\ RequestedIds = <<img_002, img_001>>
    /\ last_call.out.value.deleted_ids = <<img_002, img_001>>
    /\ last_call.out.value.deleted_count = 2

----------------------------------------------------------------------------
(* Properties of get_related_images called directly (SpecTools).           *)

IsRelatedCall == last_call.op = "get_related_images"

IsLegacyRelatedCall == last_call.op = "tools.get_related_images"

RequestedImageId == arg_get(last_call.input, "image_id", VNone).s

RequestedLimit == arg_get(last_call.input, "limit", VInt(5)).i

(* the record of the store with this id *)
RecordWithId(id) ==
    SAMPLE_IMAGES[CHOOSE i \in 1..Len(SAMPLE_IMAGES) : SAMPLE_IMAGES[i].id = id]

(* C18: get_related_images(id, limit) for an id of no record returns       *)
(* success false with a message and no data payload; otherwise it returns  *)
(* success true with at most limit summaries, each the summary of a store  *)
(* record whose id is in the relations of the target (for img_001: img_002 *)
(* and img_003).                                                           *)
C18_RelatedImages ==
    /\ (IsRelatedCall /\ RequestedImageId \notin RecordIds) =>
          /\ ~last_call.out.raised
          /\ last_call.out.value.success = FALSE
          /\ DOMAIN last_call.out.value = {"success", "message"}
    /\ (IsRelatedCall /\ RequestedImageId \in RecordIds) =>
          LET v == last_call.out.value
              target == RecordWithId(RequestedImageId)
          IN  /\ ~last_call.out.raised
              /\ v.success = TRUE
              /\ Len(v.related_images) <= RequestedLimit
              /\ \A k \in 1..Len(v.related_images) :
                    /\ list_in(v.related_images[k].id, target.relations)
                    /\ v.related_images[k].id \in RecordIds
                    /\ v.related_images[k]
                          = _create_image_summary(RecordWithId(v.related_images[k].id))
              /\ (RequestedImageId = img_001 /\ RequestedLimit >= 2) =>
                    IdsOf(v.related_images) = <<img_002, img_003>>
    /\ (IsLegacyRelatedCall /\ RequestedImageId \notin RecordIds) =>
          /\ last_call.out.value.success = FALSE
          /\ last_call.out.value.data = None
    /\ (IsLegacyRelatedCall /\ RequestedImageId = img_001) =>
          /\ last_call.out.value.success = TRUE
          /\ IdsOf(last_call.out.value.data.related_images) = <<img_002, img_003>>

----------------------------------------------------------------------------
(* The effect of the tools on the record store (SpecTools).                *)

(* the record with its tag list put aside *)
WithoutTags(rec) == [rec EXCEPT !.tags = <<>>]

(* C17: delete_images, the search, filter_low_quality_images,              *)
(* analyze_image_metadata and get_related_images leave the record store    *)
(* unchanged and tag_images changes nothing but tag lists, so the ids of   *)
(* the store never change; a record reported as deleted is still returned  *)
(* by the next search that matches it.                                     *)
C17_StoreFrame ==
    [][/\ last_call'.op # "tag_images" => SAMPLE_IMAGES' = SAMPLE_IMAGES
       /\ IdsOf(SAMPLE_IMAGES') = IdsOf(SAMPLE_IMAGES)
       /\ \A i \in 1..Len(SAMPLE_IMAGES) :
             WithoutTags(SAMPLE_IMAGES'[i]) = WithoutTags(SAMPLE_IMAGES[i])
       /\ (/\ last_call.op = "delete_images"
           /\ last_call'.op = "search_images_paginated"
           /\ ~last_call'.out.raised
           /\ RequestedPage(last_call'.input) = 1
           /\ last_call'.out.value.pagination.per_page
                 >= last_call'.out.value.pagination.total)
             => \A k \in 1..Len(last_call.out.value.deleted_ids) :
                   LET id == last_call.out.value.deleted_ids[k]
                   IN  PolicyMatch(RecordWithId(id), last_call'.input)
                          => list_in(id, IdsOf(last_call'.out.value.summary))]_vars

(* A record has just been reported as deleted and is in the store. *)
C17_Witness ==
    /\ IsDeleteCall
    /\ last_call.out.value.deleted_ids = <<img_003>>
    /\ img_003 \in RecordIds
    /\ Len(SAMPLE_IMAGES) = Len(SeedImages)

----------------------------------------------------------------------------
(* The summaries handed out by the tools (SpecTools).                      *)

(* the summaries in the result of a call *)
SummariesOf(call) ==
    IF call.op = "search_images_paginated" /\ ~call.out.raised
    THEN call.out.value.summary
    ELSE IF call.op = "get_related_images" /\ call.out.value.success
    THEN <<call.out.value.source_image>> \o call.out.value.related_images
    ELSE IF call.op = "filter_low_quality_images"
    THEN call.out.value.removed_sample
    ELSE <<>>

Smaller(a, b) == IF a <= b THEN a ELSE b

(* s is the reduced view of the record rec *)
IsSummaryOf(s, rec) ==
    /\ DOMAIN s = {"id", "filename", "location", "quality", "tags"}
    /\ s.id = rec.id
    /\ s.filename = rec.filename
    /\ s.location = rec.location
    /\ s.quality = rec.quality
    /\ Len(s.tags) = Smaller(5, Len(rec.tags))
    /\ \A k \in 1..Len(s.tags) : s.tags[k] = rec.tags[k]

(* C19: every summary a tool hands out has exactly the fields id,          *)
(* filename, location, quality and tags, with the values of the record it  *)
(* was made from and the first min(5, number of tags) of its tags in       *)
(* order, however long tag_images has made the list; and making it leaves  *)
(* the record as it was.                                                   *)
C19_SummaryProjection ==
    [][LET made == SummariesOf(last_call')
       IN  /\ \A k \in 1..Len(made) :
                 /\ made[k].id \in RecordIds
                 /\ IsSummaryOf(made[k], RecordWithId(made[k].id))
           /\ made # <<>> => SAMPLE_IMAGES' = SAMPLE_IMAGES]_vars

(* A search listed a record that tag_images has given seven tags. *)
C19_Witness ==
    /\ IsSearchCall
    /\ Len(SAMPLE_IMAGES[1].tags) = 7
    /\ \E k \in 1..Len(last_call.out.value.summary) :
          /\ last_call.out.value.summary[k].id = img_001
          /\ last_call.out.value.summary[k].tags = SubSeq(SAMPLE_IMAGES[1].tags, 1, 5)

----------------------------------------------------------------------------
(* The message list of a model call (Spec).                                *)

(* the nodes that call the model, each with a freshly built message list *)
ModelCallNodes == {"process_input", "should_call_tools", "call_tools", "process_results"}

HasNote(messages) == messages # <<>> /\ messages[1].type = "system"

(* C20: the message list built for a model call starts with the            *)
(* cached-search note exactly when the cache holds an entry that is valid  *)
(* at that moment; without one the list is the conversation history alone  *)
(* and no error is recorded; and in both cases the tools bound to the      *)
(* model are those bound at construction.                                  *)
C20_ContextNote ==
    [][(pc \in ModelCallNodes /\ pc' # pc) =>
          LET valid_entry == \E i \in 1..Len(search_cache) :
                                IsValidAt(search_cache[i].timestamp, clock)
          IN  /\ HasNote(llm_messages') <=> valid_entry
              /\ Len(llm_messages')
                    = Len(state.conversation_history) + (IF valid_entry THEN 1 ELSE 0)
              /\ \A k \in 2..Len(llm_messages') : llm_messages'[k].type # "system"
              /\ pc # "call_tools" => state'.error = state.error
              /\ llm_with_tools' = llm_with_tools
              /\ llm_with_tools = {"search_images_paginated", "filter_low_quality_images",
                                   "delete_images", "tag_images",
                                   "analyze_image_metadata", "get_related_images"}]_vars

(* The model was called with a cache whose every entry had expired, and    *)
(* its message list has no note.                                           *)
C20_Witness ==
    /\ pc = "should_call_tools"
    /\ search_cache # <<>>
    /\ \A i \in 1..Len(search_cache) : ~IsValidAt(search_cache[i].timestamp, clock)
    /\ llm_messages # <<>>
    /\ ~HasNote(llm_messages)

(* the cache entries that are valid at the clock value and as young as any *)
LatestValidEntries ==
    {i \in 1..Len(search_cache) :
        /\ IsValidAt(search_cache[i].timestamp, clock)
        /\ \A j \in 1..Len(search_cache) :
              IsValidAt(search_cache[j].timestamp, clock)
                  => search_cache[j].timestamp <= search_cache[i].timestamp}

(* C21: when the message list of a model call has the note, the query the  *)
(* note states is the query of the most recent valid search, and the count *)
(* it states is the total match count of that search.                      *)
C21_NoteContent ==
    [][(pc \in ModelCallNodes /\ pc' # pc /\ HasNote(llm_messages')) =>
          \E i \in LatestValidEntries :
              /\ llm_messages'[1].query = search_cache[i].query
              /\ llm_messages'[1].total_count = search_cache[i].pagination.total]_vars

----------------------------------------------------------------------------
(* The order of the nodes within one invoke (Spec).                        *)

(* the moves from one position of a turn to the next *)
TurnEdges ==
    {<<"idle", "start">>, <<"start", "process_input">>,
     <<"process_input", "should_call_tools">>,
     <<"should_call_tools", "call_tools">>, <<"should_call_tools", "end">>,
     <<"call_tools", "process_results">>, <<"process_results", "end">>,
     <<"end", "idle">>}

(* how many tool rounds the running invoke has recorded in its history *)
ToolRounds(st) ==
    Cardinality({k \in 1..Len(st.conversation_history) :
                    st.conversation_history[k].content.kind = "tool_results"})

(* C22: in every invoke the nodes run in the order start, process_input,   *)
(* then optionally call_tools followed by process_results, then end;       *)
(* call_tools runs at most once per invoke, and process_input is not       *)
(* entered again after process_results.                                    *)
C22_SinglePass ==
    [][/\ pc' # pc => <<pc, pc'>> \in TurnEdges
       /\ pc' = "call_tools" => ToolRounds(state) = 0
       /\ ToolRounds(state') <= 1
       /\ (pc = "process_results" /\ pc' # pc) => pc' = "end"]_vars

(* A turn with a tool round has passed process_results and stands at end. *)
C22_Witness ==
    /\ pc = "end"
    /\ state.current_step = "process_results"
    /\ ToolRounds(state) = 1

----------------------------------------------------------------------------
(* The decision to call tools (Spec).                                      *)

(* the calls that call_tools has executed in the round just run *)
ExecutedCalls ==
    [k \in 1..Len(RoundResults) |->
        [name |-> RoundResults[k].tool, args |-> RoundResults[k].input]]

(* C23: if the model output obtained in process_input requests no tool     *)
(* call the turn goes from process_input to end and runs no tool; if it    *)
(* requests tool calls, call_tools runs and executes the calls of that     *)
(* output; this for a model whose outputs on the same messages may differ. *)
C23_ToolCallDecision ==
    /\ (llm_response # None /\ llm_response[1] = <<>>) =>
          /\ pc \in {"should_call_tools", "end"}
          /\ ToolRounds(state) = 0
    /\ (llm_response # None /\ llm_response[1] # <<>>) =>
          /\ pc = "end" => ToolRounds(state) = 1
          /\ pc = "process_results" => ExecutedCalls = llm_response[1]

----------------------------------------------------------------------------
(* Termination of a turn (SpecLive).                                       *)

(* the invoke has returned its final state *)
TurnReturned ==
    /\ pc = "idle"
    /\ state.current_step = "end"
    /\ state.is_complete = TRUE

(* C24: when every model call and every tool call returns, each invoke     *)
(* that has started reaches the end node and returns a state with          *)
(* current_step = "end" and is_complete = true.                            *)
C24_TurnTermination == (pc = "start") ~> TurnReturned

(* A turn that ran a tool round has returned. *)
C24_Witness ==
    /\ TurnReturned
    /\ ToolRounds(state) = 1

----------------------------------------------------------------------------
(* Exceptions raised by tools inside call_tools (Spec).                    *)

(* the tool results of the round of the current turn, if a round has run *)
TurnResults ==
    LET rounds == {k \in 1..Len(state.conversation_history) :
                      state.conversation_history[k].content.kind = "tool_results"}
    IN  IF rounds = {} THEN <<>>
        ELSE state.conversation_history[CHOOSE k \in rounds : TRUE].content.tool_results

IsErrorOutput(r) == DOMAIN r.output = {"error"}

FailedCalls == {k \in 1..Len(TurnResults) : IsErrorOutput(TurnResults[k])}

(* a search whose page size is 0 divides by zero *)
SearchRaises(r) ==
    /\ r.tool = "search_images_paginated"
    /\ arg_get(r.input, "per_page", VInt(DefaultPerPage)).i = 0

(* the calls of the round that completed, in the order of the round *)
RECURSIVE CompletedCalls(_)
CompletedCalls(results) ==
    IF results = <<>> THEN <<>>
    ELSE IF IsErrorOutput(Head(results)) THEN CompletedCalls(Tail(results))
    ELSE <<[tool |-> Head(results).tool, input |-> Head(results).input]>>
             \o CompletedCalls(Tail(results))

(* the calls of a requested list that name a registered tool *)
RegisteredCalls(tool_calls) == SelectSeq(tool_calls, LAMBDA c : c.name \in tool_map)

(* C25: an exception raised by a tool call in call_tools stays inside the  *)
(* turn: the call has an error output, state.error holds the exception of  *)
(* the last call that raised, the cache has no entry for a raising call,   *)
(* actions_taken lists exactly the calls that completed, every call of the *)
(* requested list that names a registered tool has a result, and the turn  *)
(* still returns from the end node.                                        *)
C25_ErrorContainment ==
    /\ \A k \in 1..Len(TurnResults) :
          /\ SearchRaises(TurnResults[k]) => IsErrorOutput(TurnResults[k])
          /\ IsErrorOutput(TurnResults[k]) =>
                cache_key(TurnResults[k].input) \notin CacheKeys(search_cache)
    /\ FailedCalls # {} =>
          LET last == CHOOSE k \in FailedCalls : \A j \in FailedCalls : j <= k
          IN  /\ state.error # None
              /\ state.error[1].tool = TurnResults[last].tool
              /\ state.error[1].exc = TurnResults[last].output.error
    /\ ToolRounds(state) = 1 =>
          /\ [k \in 1..Len(state.actions_taken) |-> state.actions_taken[k].params]
                = CompletedCalls(TurnResults)
          /\ [k \in 1..Len(TurnResults) |->
                 [name |-> TurnResults[k].tool, args |-> TurnResults[k].input]]
                \in {RegisteredCalls(tool_calls) : tool_calls \in LLMToolCalls}
    /\ (pc = "idle" /\ state.error # None) =>
          (state.current_step = "end" /\ state.is_complete = TRUE)

(* A turn has returned in which the first call raised ZeroDivisionError    *)
(* and the second call, a search, completed and was cached.                *)
C25_Witness ==
    /\ pc = "idle"
    /\ state.error = Some([tool |-> "search_images_paginated", exc |-> "ZeroDivisionError"])
    /\ Len(TurnResults) = 2
    /\ FailedCalls = {1}
    /\ Len(state.actions_taken) = 1
    /\ cache_key(TurnResults[2].input) \in CacheKeys(search_cache)

----------------------------------------------------------------------------
(* Which tool calls write the cache (Spec).                                *)

(* the tool results of the last round recorded in a state *)
ResultsOf(st) ==
    LET rounds == {k \in 1..Len(st.conversation_history) :
                      st.conversation_history[k].content.kind = "tool_results"}
    IN  IF rounds = {} THEN <<>>
        ELSE st.conversation_history[CHOOSE k \in rounds : TRUE].content.tool_results

(* the keys of the search calls that completed in a round *)
CompletedSearchKeys(results) ==
    {cache_key(results[k].input) :
        k \in {j \in 1..Len(results) : IsSearchResult(results[j])}}

EntryIn(cache, key) == cache[CHOOSE i \in 1..Len(cache) : cache[i].key = key]

OtherTools ==
    {"filter_low_quality_images", "tag_images", "delete_images",
     "analyze_image_metadata", "get_related_images"}

(* C26: a round of call_tools changes the cache only at the keys of its    *)
(* completed search_images_paginated calls: each of these keys has an      *)
(* entry written in the round, no other key is added, every other entry    *)
(* stays as it was, and a round of filter, tag, delete, analyze and        *)
(* related calls alone leaves the cache as it was.                         *)
C26_CacheWriteFrame ==
    [][(pc = "call_tools" /\ pc' = "process_results") =>
          LET results == ResultsOf(state')
              written == CompletedSearchKeys(results)
          IN  /\ CacheKeys(search_cache') = CacheKeys(search_cache) \cup written
              /\ Len(search_cache') = Cardinality(CacheKeys(search_cache'))
              /\ \A key \in written :
                    /\ EntryIn(search_cache', key).timestamp = clock
                    /\ \E k \in 1..Len(results) :
                          /\ IsSearchResult(results[k])
                          /\ cache_key(results[k].input) = key
                          /\ EntryIn(search_cache', key).pagination
                                = results[k].output.pagination
              /\ \A key \in CacheKeys(search_cache) \ written :
                    EntryIn(search_cache', key) = EntryIn(search_cache, key)
              /\ (\A k \in 1..Len(results) : results[k].tool \in OtherTools)
                    => search_cache' = search_cache]_vars

(* A round of the four calls filter, delete, analyze, related has run on a *)
(* cache that holds an entry, and the cache still holds exactly it.        *)
C26_Witness ==
    /\ pc = "process_results"
    /\ Len(RoundResults) = 4
    /\ \A k \in 1..4 : RoundResults[k].tool \in OtherTools
    /\ Len(search_cache) = 1
    /\ search_cache[1].timestamp < clock

----------------------------------------------------------------------------
(* Tag lists over sequences of tag_images calls (SpecTools).               *)

NoRepeatedTag(images) ==
    \A i \in 1..Len(images) :
        \A a, b \in 1..Len(images[i].tags) :
            a # b => images[i].tags[a] # images[i].tags[b]

IsPrefixOf(s, t) == Len(s) <= Len(t) /\ SubSeq(t, 1, Len(s)) = s

(* C27: from the seed store on, whatever tag_images calls are made, also   *)
(* with a tags argument that repeats a tag, no record's tag list holds a   *)
(* tag twice, and in every step each record keeps its place and id and its *)
(* tag list before the step is a prefix of its tag list after the step.    *)
C27_TagListInvariant ==
    [][/\ NoRepeatedTag(SAMPLE_IMAGES)
       /\ NoRepeatedTag(SAMPLE_IMAGES')
       /\ Len(SAMPLE_IMAGES') = Len(SAMPLE_IMAGES)
       /\ \A i \in 1..Len(SAMPLE_IMAGES) :
             /\ SAMPLE_IMAGES'[i].id = SAMPLE_IMAGES[i].id
             /\ IsPrefixOf(SAMPLE_IMAGES[i].tags, SAMPLE_IMAGES'[i].tags)]_vars

(* Record img_001 has been tagged by two calls, one with a repeated tag,   *)
(* and carries its seed tags followed by three new ones.                   *)
C27_Witness ==
    /\ IsTagCall
    /\ Len(SAMPLE_IMAGES[1].tags) = Len(SeedImages[1].tags) + 3
    /\ IsPrefixOf(SeedImages[1].tags, SAMPLE_IMAGES[1].tags)
    /\ list_in(s_people, SAMPLE_IMAGES[1].tags)
    /\ list_in(s_zzz, SAMPLE_IMAGES[1].tags)

----------------------------------------------------------------------------
(* The result of tag_images (SpecTools).                                   *)

RequestedTagIds(call) == arg_get(call.input, "image_ids", VNone).l

(* C28: every tag_images call returns success = true with updated_count   *)
(* equal to the number of store records whose id is among the given ids,   *)
(* also when the call adds no tag; updated_count is at most the number of  *)
(* records, and records whose id is not among the ids are left as they     *)
(* were.                                                                   *)
C28_TagResult ==
    [][last_call'.op = "tag_images" =>
          LET ids == RequestedTagIds(last_call')
              touched == {i \in 1..Len(SAMPLE_IMAGES) : list_in(SAMPLE_IMAGES[i].id, ids)}
          IN  /\ ~last_call'.out.raised
              /\ last_call'.out.value.success = TRUE
              /\ last_call'.out.value.updated_count = Cardinality(touched)
              /\ last_call'.out.value.updated_count <= Len(SAMPLE_IMAGES)
              /\ \A i \in 1..Len(SAMPLE_IMAGES) :
                    i \notin touched => SAMPLE_IMAGES'[i] = SAMPLE_IMAGES[i]]_vars

(* A call naming one record and one unknown id, made after other tag       *)
(* calls on the record, reported one updated record for two given ids.     *)
C28_Witness ==
    /\ IsTagCall
    /\ RequestedTagIds(last_call) = <<img_001, img_999>>
    /\ last_call.out.value.updated_count = 1
    /\ last_call.out.value.image_count = 2
    /\ list_in(s_zzz, SAMPLE_IMAGES[1].tags)

----------------------------------------------------------------------------
(* Searches after tagging (SpecTools).                                     *)

(* the ids listed by a search whose first page holds the whole match set *)
FullPageIds(call) == {call.out.value.summary[k].id : k \in 1..Len(call.out.value.summary)}

IsFullPlainSearch(call) ==
    /\ call.op = "search_images_paginated"
    /\ ~call.out.raised
    /\ ~FilterGiven(call.input, "location")
    /\ ~FilterGiven(call.input, "tags")
    /\ ~FilterGiven(call.input, "quality")
    /\ RequestedPage(call.input) = 1
    /\ call.out.value.pagination.total <= call.out.value.pagination.per_page

(* C29: a search with text term t and no filter lists every record that    *)
(* carries the tag t in the store at the time of the search; so a search   *)
(* that follows tag_images(ids, [t]) lists every existing record named in  *)
(* ids, whether or not the seed store matched it.                          *)
C29_LiveStoreSearch ==
    [][IsFullPlainSearch(last_call') =>
          LET t == SearchQueryOf(last_call'.input)
          IN  /\ \A i \in 1..Len(SAMPLE_IMAGES) :
                    list_in(t, SAMPLE_IMAGES[i].tags)
                        => SAMPLE_IMAGES[i].id \in FullPageIds(last_call')
              /\ (IsTagCall /\ arg_get(last_call.input, "tags", VNone).l = <<t>>)
                    => \A i \in 1..Len(SAMPLE_IMAGES) :
                          list_in(SAMPLE_IMAGES[i].id, RequestedTagIds(last_call))
                              => SAMPLE_IMAGES[i].id \in FullPageIds(last_call')]_vars

(* A search for "beach" lists img_004, which the seed store does not match *)
(* and which was tagged "beach" before the search.                         *)
C29_Witness ==
    /\ IsFullPlainSearch(last_call)
    /\ SearchQueryOf(last_call.input) = s_beach
    /\ img_004 \in FullPageIds(last_call)
    /\ ~list_in(s_beach, SeedImages[4].tags)
    /\ last_call.out.value.pagination.total
          = Len(search_results(SeedImages, s_beach, None, None, None)) + 1

----------------------------------------------------------------------------
(* The cache from one turn to the next (Spec).                             *)

(* the entries put by the last caching round, when no other entry has the  *)
(* same or a later time                                                    *)
LastPutEntries ==
    {i \in 1..Len(search_cache) :
        \A j \in 1..Len(search_cache) :
            j # i => search_cache[j].timestamp < search_cache[i].timestamp}

(* C30: invoke starts every turn with an empty conversation_history and    *)
(* empty actions_taken and leaves the cache of the agent as the earlier    *)
(* turns left it, as does the return of a turn; and at the first model     *)
(* call of a turn, made before any tool of the turn has run, the entry put *)
(* last in an earlier turn is what the note states whenever less than the  *)
(* TTL has passed since it was put.                                        *)
C30_CacheAcrossTurns ==
    [][/\ (pc = "idle" /\ pc' = "start") =>
             /\ search_cache' = search_cache
             /\ state'.conversation_history = <<>>
             /\ state'.actions_taken = <<>>
       /\ (pc = "end" /\ pc' = "idle") => search_cache' = search_cache
       /\ (pc = "process_input" /\ pc' # pc) =>
             /\ ToolRounds(state) = 0
             /\ Len(state.conversation_history) = 1
             /\ \A i \in LastPutEntries :
                   clock - search_cache[i].timestamp < cache_ttl_minutes =>
                       /\ HasNote(llm_messages')
                       /\ llm_messages'[1].query = search_cache[i].query
                       /\ llm_messages'[1].total_count = search_cache[i].total_count
                       /\ Len(llm_messages') = 2]_vars

(* A later turn has made its first model call 29 minutes after the search  *)
(* of an earlier turn was cached, and the note states that search.         *)
C30_Witness ==
    /\ pc = "should_call_tools"
    /\ Len(state.conversation_history) = 2
    /\ state.actions_taken = <<>>
    /\ Len(search_cache) = 1
    /\ clock - search_cache[1].timestamp = cache_ttl_minutes - 1
    /\ HasNote(llm_messages)
    /\ llm_messages[1].query = search_cache[1].query

----------------------------------------------------------------------------
(* Exceptions of the search tool (SpecTools).                              *)

(* C31: for every integer per_page, zero and negative values included, and *)
(* every page >= 1, search_images_paginated returns a result with a        *)
(* success flag and pagination metadata and does not raise.                *)
C31_SearchNeverRaises ==
    (last_call.op = "search_images_paginated" /\ RequestedPage(last_call.input) >= 1) =>
        /\ ~last_call.out.raised
        /\ "success" \in DOMAIN last_call.out.value
        /\ "pagination" \in DOMAIN last_call.out.value

----------------------------------------------------------------------------
(* The action log of a round (Spec).                                       *)

(* the actions a list of tool results stands for: one per completed call *)
RECURSIVE ActionsFor(_)
ActionsFor(results) ==
    IF results = <<>> THEN <<>>
    ELSE IF IsErrorOutput(Head(results)) THEN ActionsFor(Tail(results))
    ELSE <<[type |-> action_type(Head(results).tool),
            params |-> [tool |-> Head(results).tool, input |-> Head(results).input]]>>
             \o ActionsFor(Tail(results))

(* C32: a round of call_tools leaves in actions_taken one entry for each   *)
(* call that named a registered tool and completed, in the order of the    *)
(* calls, with the action type of the tool; the tool results are those of  *)
(* the calls of a requested list that name a registered tool, so a call of *)
(* a name that is not registered adds no action and no result, and         *)
(* state.error is set by the round only when one of its results is an      *)
(* error output.                                                           *)
C32_ActionLog ==
    [][(pc = "call_tools" /\ pc' = "process_results") =>
          LET results == ResultsOf(state')
              failed == {k \in 1..Len(results) : IsErrorOutput(results[k])}
          IN  /\ state'.actions_taken = state.actions_taken \o ActionsFor(results)
              /\ Len(state'.actions_taken) - Len(state.actions_taken)
                    = Len(results) - Cardinality(failed)
              /\ \E tool_calls \in LLMToolCalls :
                    [k \in 1..Len(results) |->
                        [name |-> results[k].tool, args |-> results[k].input]]
                       = RegisteredCalls(tool_calls)
              /\ \A k \in 1..Len(results) : results[k].tool \in tool_map
              /\ failed = {} => state'.error = state.error]_vars

(* A round has left a single result, that of get_related_images: it is the *)
(* round of the requested list that names the unregistered tool first, and *)
(* it logged one action, of the default type, and no error.                *)
C32_Witness ==
    /\ pc = "process_results"
    /\ Len(RoundResults) = 1
    /\ RoundResults[1].tool = "get_related_images"
    /\ state.actions_taken
          = <<[type |-> "search",
               params |-> [tool |-> "get_related_images", input |-> ArgsRelated]]>>
    /\ state.error = None

----------------------------------------------------------------------------
(* What tells two cache keys apart (SpecCache).                            *)

IsCachePut(call) == call.op = "_cache_search_results"

(* the search an argument map asks for, the defaults filled in *)
EffectiveSearch(query_params) ==
    [query |-> SearchQueryOf(query_params),
     location |-> arg_get(query_params, "location", VNone),
     tags |-> arg_get(query_params, "tags", VNone),
     quality |-> arg_get(query_params, "quality", VNone),
     page |-> RequestedPage(query_params),
     per_page |-> RequestedPerPage(query_params)]

(* C33: the key of a cache entry stands for the complete argument map: a   *)
(* put whose argument map differs from the maps of all entries in a name   *)
(* or a value (a different page or per_page, or a default given instead of *)
(* left out) adds a new entry and leaves every entry as it was, and a put  *)
(* whose map has the names and values of an entry's map replaces that      *)
(* entry.                                                                  *)
C33_KeyGranularity ==
    [][IsCachePut(last_call') /\ search_cache' # search_cache =>
          LET args == ArgSet(last_call'.input)
              same == {i \in 1..Len(search_cache) : ArgSet(search_cache[i].key) = args}
          IN  /\ same = {} =>
                    /\ Len(search_cache') = Len(search_cache) + 1
                    /\ SubSeq(search_cache', 1, Len(search_cache)) = search_cache
                    /\ ArgSet(search_cache'[Len(search_cache')].key) = args
              /\ same # {} =>
                    /\ Len(search_cache') = Len(search_cache)
                    /\ \A i \in 1..Len(search_cache) :
                          i \notin same => search_cache'[i] = search_cache[i]]_vars

(* The cache holds three entries for the query "beach": two for the same   *)
(* page of the same search, one with page = 1 given and one with the page  *)
(* left out, and one for page 2.                                           *)
C33_Witness ==
    /\ Len(search_cache) = 3
    /\ \E i, j, k \in 1..3 :
          /\ i # j
          /\ ArgSet(search_cache[i].key) = ArgSet(ArgsBeachP1)
          /\ ArgSet(search_cache[j].key) = ArgSet(ArgsBeachNoPage)
          /\ EffectiveSearch(search_cache[i].key) = EffectiveSearch(search_cache[j].key)
          /\ ArgSet(search_cache[k].key) = ArgSet(ArgsBeachP2)
          /\ EffectiveSearch(search_cache[k].key).page = 2

----------------------------------------------------------------------------
(* The count reported by delete_images (SpecTools).                        *)

(* C34: for every list of requested ids, lists that name an existing id    *)
(* more than once included, the deleted count that delete_images reports   *)
(* (deleted_count, and count in tools.py) is at most the number of records *)
(* in the store.                                                           *)
C34_DeletedCountBound ==
    /\ IsDeleteCall => last_call.out.value.deleted_count <= Len(SAMPLE_IMAGES)
    /\ IsLegacyDeleteCall => last_call.out.value.data.count <= Len(SAMPLE_IMAGES)

----------------------------------------------------------------------------
(* Two tag_images calls at the same time (SpecConcurrent).                 *)

NoCallRunning == \A t \in Threads : tag_calls[t].at = "idle"

(* C35: when tag_images calls that name the same record and the same new  *)
(* tag run concurrently, their membership tests and appends interleaved in *)
(* any way, the record holds the tag exactly once when the calls have      *)
(* returned: no record's tag list holds a tag twice.                       *)
C35_ConcurrentTagging == NoCallRunning => NoRepeatedTag(SAMPLE_IMAGES)

----------------------------------------------------------------------------
(* The limit of the search tool of tools.py (SpecTools).                   *)

IsLegacySearchCall == last_call.op = "tools.search_images"

LimitGiven(tool_input) == arg_get(tool_input, "limit", VNone).t # "none"

RequestedSearchLimit(tool_input) == arg_get(tool_input, "limit", VNone).i

----------------------------------------------------------------------------
(* The tools of tools_optimized.py against the tools of tools.py, on the   *)
(* store and the arguments of each direct call (SpecTools).                *)

(* the named arguments of a search call handed to the other search tool *)
OtherSearchOf(images, tool_input) ==
    legacy_search_images(images,
                         arg_get(tool_input, "query", VNone).s,
                         opt_str(arg_get(tool_input, "location", VNone)),
                         opt_list(arg_get(tool_input, "tags", VNone)),
                         opt_str(arg_get(tool_input, "quality", VNone)),
                         None)

(* a search_images_paginated call that returned, against search_images     *)
(* without limit on the store it read                                      *)
SearchVariantsAgree ==
    (last_call'.op = "search_images_paginated" /\ ~last_call'.out.raised) =>
        LET other == OtherSearchOf(SAMPLE_IMAGES, last_call'.input)
            out == last_call'.out.value
        IN  /\ ~other.raised
            /\ out.pagination.total = Len(other.value.data.images)
            /\ Len(out.summary) = out.pagination.total =>
                  IdsOf(out.summary) = IdsOf(other.value.data.images)

FilterVariantsAgree ==
    (last_call'.op = "filter_low_quality_images") =>
        LET threshold == arg_get(last_call'.input, "threshold", VStr(s_poor)).s
            other == legacy_filter_low_quality_images(SAMPLE_IMAGES, threshold).value.data
            out == last_call'.out.value
        IN  /\ out.removed_count = Len(other.removed)
            /\ out.kept_count = Len(other.kept)
            /\ IdsOf(out.removed_sample) =
                  IdsOf(SubSeq(other.removed, 1, Smaller(RemovedSample, Len(other.removed))))

DeleteVariantsAgree ==
    (last_call'.op = "delete_images") =>
        LET image_ids == arg_get(last_call'.input, "image_ids", VNone).l
            other == legacy_delete_images(SAMPLE_IMAGES, image_ids).value.data
        IN  /\ last_call'.out.value.deleted_ids = other.deleted_ids
            /\ last_call'.out.value.deleted_count = other.count

TagVariantsAgree ==
    (last_call'.op = "tag_images") =>
        LET image_ids == arg_get(last_call'.input, "image_ids", VNone).l
            tags == arg_get(last_call'.input, "tags", VNone).l
        IN  /\ SAMPLE_IMAGES' = legacy_tag_images_store(SAMPLE_IMAGES, image_ids, tags)
            /\ last_call'.out.value.updated_count =
                  legacy_tag_images_result(SAMPLE_IMAGES, image_ids, tags).value.data.updated_count

RelatedVariantsAgree ==
    (last_call'.op = "get_related_images") =>
        LET image_id == arg_get(last_call'.input, "image_id", VNone).s
            limit == arg_get(last_call'.input, "limit", VInt(DefaultLimit)).i
            other == legacy_get_related_images(SAMPLE_IMAGES, image_id).value
            out == last_call'.out.value
        IN  /\ out.success = other.success
            /\ (other.success /\ limit >= Len(other.data.related_images)) =>
                  IdsOf(out.related_images) = IdsOf(other.data.related_images)

(* C37: on the store and the arguments of every call of a tool of          *)
(* tools_optimized.py, the tool of tools.py computes the same: search      *)
(* without limit the same match set, filter the same removed and kept      *)
(* sets, delete the same ids, tag the same store and updated_count, and    *)
(* get_related_images the same related ids when limit is at least the      *)
(* number of relations.                                                    *)
C37_VariantsAgree ==
    [][/\ SearchVariantsAgree
       /\ FilterVariantsAgree
       /\ DeleteVariantsAgree
       /\ TagVariantsAgree
       /\ RelatedVariantsAgree]_vars

(* the same with the searches left out *)
C37_OtherToolsAgree ==
    [][/\ FilterVariantsAgree
       /\ DeleteVariantsAgree
       /\ TagVariantsAgree
       /\ RelatedVariantsAgree]_vars

----------------------------------------------------------------------------
(* Equally recent entries in _get_last_search_results (SpecCache).         *)

(* the positions of the entries valid at the time of the latest read whose *)
(* timestamp is the largest among the valid ones                           *)
LatestValid ==
    {i \in 1..Len(search_cache) :
        /\ IsValidAt(search_cache[i].timestamp, last_call.at)
        /\ \A j \in 1..Len(search_cache) :
              IsValidAt(search_cache[j].timestamp, last_call.at)
                 => search_cache[j].timestamp <= search_cache[i].timestamp}

(* C38: a _get_last_search_results call that finds valid entries returns,  *)
(* of the valid entries with the latest timestamp, the one whose key       *)
(* stands first in the cache, that is, whose key was inserted first; the   *)
(* result is fixed by the cache and the time of the call.                  *)
C38_TieBreak ==
    (last_call.op = "_get_last_search_results" /\ last_call.out # None) =>
        /\ LatestValid # {}
        /\ \E i \in LatestValid :
              /\ \A j \in LatestValid : i <= j
              /\ last_call.out[1] = search_cache[i]
        /\ last_call.out = _get_last_search_results(search_cache, last_call.at)

(* The read ran with two valid entries of the same latest timestamp under  *)
(* different keys and returned the one stored in front.                    *)
C38_Witness ==
    /\ last_call.op = "_get_last_search_results"
    /\ last_call.out # None
    /\ \E i, j \in LatestValid :
          /\ i < j
          /\ search_cache[i].key # search_cache[j].key
          /\ search_cache[i] # search_cache[j]
          /\ last_call.out[1] = search_cache[i]

====
